---------------------------- MODULE Spec2Model ----------------------------
(* Suggestion coordinator of the terminal client (handleKey, the debounce  *)
(* timer, the streaming consumer of the generation engine), the generation *)
(* engine's step loop, and the library's token stream.                     *)
(*                                                                         *)
(* Text is a sequence of one-character strings.  The scorer is opaque: one *)
(* completed scorer invocation, followed by the sampling of the step, is a *)
(* nondeterministic choice among a fault, a top probability below          *)
(* minConfidence, and a sampled vocabulary id.                             *)
(* Ctrl+C ends the process; no coordinator state survives it, so it is not *)
(* an action here.                                                         *)
EXTENDS Integers, Sequences, FiniteSets, TLC

\* ------------------------------------------------------------- bounds
\* Key events handled in one behaviour of the terminal client.
MaxKeys == 3
\* Key events handled after a sampled start state (SpecAccept).
MaxAcceptKeys == 1
\* generation_defaults.max_new_tokens of the loaded metadata file.
MaxNewTokens == 2

\* ---------------------------------------------------------- constants
Null == 0
\* minConfidence the terminal client passes to generate, in percent.
MinConfidence == 95

\* Tokenizer.specialTokens defaults.
PadId == 0
UnkId == 1
BosId == 2
EosId == 3
\* Ordinary vocabulary ids (vocabulary ids are dense, after the special ones).
TokA == EosId + 1
TokNl == EosId + 2
TokWorld == EosId + 3
TokPeaceNow == EosId + 4
TokLoWorld == EosId + 5
TokBlank == EosId + 6

\* ------------------------------------------------------------- text
SP == " "
NL == "\n"

\* JavaScript's \s restricted to the characters that occur here.
IsWs(c) == c \in {SP, NL, "\t", "\r"}

IsNewline(c) == c \in {NL, "\r"}

\* String.prototype.startsWith
StartsWith(s, p) == Len(p) <= Len(s) /\ SubSeq(s, 1, Len(p)) = p

\* String.prototype.endsWith(" ")
EndsWithSpace(s) == Len(s) > 0 /\ s[Len(s)] = SP

\* String.prototype.slice(n)
Slice(s, n) == IF n >= Len(s) THEN <<>> ELSE SubSeq(s, n + 1, Len(s))

\* Number of leading characters of s that satisfy / do not satisfy IsWs.
RECURSIVE LeadWs(_)
LeadWs(s) == IF s = <<>> \/ ~IsWs(Head(s)) THEN 0 ELSE 1 + LeadWs(Tail(s))

RECURSIVE LeadNonWs(_)
LeadNonWs(s) == IF s = <<>> \/ IsWs(Head(s)) THEN 0 ELSE 1 + LeadNonWs(Tail(s))

\* replace(/\s+$/, "")
RECURSIVE RTrim(_)
RTrim(s) == IF s = <<>> \/ ~IsWs(s[Len(s)]) THEN s ELSE RTrim(SubSeq(s, 1, Len(s) - 1))

\* String.prototype.trim
Trim(s) == RTrim(Slice(s, LeadWs(s)))

\* replace(/[\r\n]+/g, " "): every maximal run of newlines becomes one space.
RECURSIVE FlattenNewlines(_)
FlattenNewlines(s) ==
  IF s = <<>> THEN <<>>
  ELSE IF IsNewline(Head(s))
       THEN IF Len(s) > 1 /\ IsNewline(s[2])
            THEN FlattenNewlines(Tail(s))
            ELSE <<SP>> \o FlattenNewlines(Tail(s))
       ELSE <<Head(s)>> \o FlattenNewlines(Tail(s))

\* ------------------------------------------------------------ tokenizer
\* Tokenizer.decode([id]): special ids and ids without a reverse-vocabulary
\* entry give the empty text.
TokenText(id) ==
  IF id \in {PadId, UnkId, BosId, EosId} THEN <<>>
  ELSE IF id = TokA THEN <<SP, "a">>
  ELSE IF id = TokNl THEN <<NL, NL, "b">>
  ELSE IF id = TokWorld THEN <<SP, "w", "o", "r", "l", "d">>
  ELSE IF id = TokPeaceNow THEN <<SP, "p", "e", "a", "c", "e", SP, "n", "o", "w">>
  ELSE IF id = TokLoWorld THEN <<"l", "o", SP, "w", "o", "r", "l", "d">>
  ELSE IF id = TokBlank THEN <<SP, SP>>
  ELSE <<>>

\* Vocabulary ids the sampling of a step returns in Spec.
SampleIds == {EosId, TokA}

\* ---- characters, bytes and byte-level symbols
\* The character U+00E9 (two UTF-8 bytes) and the replacement character
\* TextDecoder gives for a malformed sequence.
Eacute == "U+00E9"
Replacement == "U+FFFD"

Letters ==
  {"a", "b", "c", "d", "e", "h", "i", "k", "l", "n", "o", "p", "r", "s", "u", "w", Eacute}

\* The characters of the texts and vocabulary entries used here.
Chars == Letters \cup {"\t", NL, "\r", SP, "!", "'", "1", "<", ">"}

\* TextEncoder.encode of one character.
Utf8(c) ==
  CASE c = "\t" -> <<9>>   [] c = NL -> <<10>>   [] c = "\r" -> <<13>>
    [] c = SP -> <<32>>    [] c = "!" -> <<33>>  [] c = "'" -> <<39>>
    [] c = "1" -> <<49>>   [] c = "<" -> <<60>>  [] c = ">" -> <<62>>
    [] c = "a" -> <<97>>   [] c = "b" -> <<98>>  [] c = "c" -> <<99>>
    [] c = "d" -> <<100>>  [] c = "e" -> <<101>> [] c = "h" -> <<104>>
    [] c = "i" -> <<105>>  [] c = "k" -> <<107>> [] c = "l" -> <<108>>
    [] c = "n" -> <<110>>  [] c = "o" -> <<111>> [] c = "p" -> <<112>>
    [] c = "r" -> <<114>>  [] c = "s" -> <<115>> [] c = "u" -> <<117>>
    [] c = "w" -> <<119>>  [] c = Eacute -> <<195, 169>>

\* The character of each byte below 128 that is the encoding of one.
AsciiChar ==
  [b \in {Utf8(c)[1] : c \in Chars \ {Eacute}} |-> CHOOSE c \in Chars : Utf8(c) = <<b>>]

\* TextDecoder.decode (UTF-8, not fatal) of a byte sequence: a byte below
\* 128 is its character, 195 169 is U+00E9, and a lead byte without its
\* continuation or a lone continuation byte is U+FFFD.  Bytes below 128 with
\* no character in Chars do not occur here.
RECURSIVE Utf8Decode(_)
Utf8Decode(bytes) ==
  IF bytes = <<>> THEN <<>>
  ELSE IF Head(bytes) < 128
       THEN <<AsciiChar[Head(bytes)]>> \o Utf8Decode(Tail(bytes))
  ELSE IF Len(bytes) >= 2 /\ SubSeq(bytes, 1, 2) = Utf8(Eacute)
       THEN <<Eacute>> \o Utf8Decode(SubSeq(bytes, 3, Len(bytes)))
  ELSE <<Replacement>> \o Utf8Decode(Tail(bytes))

\* The bytes initByteToUnicode maps to their own code point.
Printable == (33..126) \cup (161..172) \cup (174..255)

\* BYTE_TO_UNICODE, as a code point: the other bytes get 256 + n, n counting
\* them in increasing order (0..32, 127..160, 173).
ByteToUnicode(b) ==
  IF b \in Printable THEN b
  ELSE IF b <= 32 THEN 256 + b
  ELSE IF b <= 160 THEN 256 + 33 + (b - 127)
  ELSE 256 + 67

\* A lookup that finds no entry (undefined).
Undefined == -1

\* UNICODE_TO_BYTE, Undefined for a code point that is no byte-level symbol.
UnicodeToByte(u) ==
  IF u \in Printable THEN u
  ELSE IF u \in 256..288 THEN u - 256
  ELSE IF u \in 289..322 THEN u - 289 + 127
  ELSE IF u = 323 THEN 173
  ELSE Undefined

\* Tokenizer.textToBytes: the byte-level symbols of a text, as code points.
RECURSIVE BytesToSymbols(_)
BytesToSymbols(bytes) ==
  IF bytes = <<>> THEN <<>>
  ELSE <<ByteToUnicode(Head(bytes))>> \o BytesToSymbols(Tail(bytes))

RECURSIVE textToBytes(_)
textToBytes(text) ==
  IF text = <<>> THEN <<>>
  ELSE BytesToSymbols(Utf8(Head(text))) \o textToBytes(Tail(text))

\* ---- the pre-tokenization pattern
\* The class of a character: "L" (\p{L}), "N" (\p{N}), "S" (\s), "O" (other).
Class(c) ==
  IF c \in Letters THEN "L"
  ELSE IF c = "1" THEN "N"
  ELSE IF IsWs(c) THEN "S"
  ELSE "O"

\* Number of leading characters of t of class k.
RECURSIVE LeadClass(_, _)
LeadClass(t, k) ==
  IF t = <<>> \/ Class(Head(t)) # k THEN 0 ELSE 1 + LeadClass(Tail(t), k)

\* " ?X+" at the start of t, X the class k: the length matched, 0 for none.
OptSpaceThen(t, k) ==
  LET sp == IF Head(t) = SP THEN 1 ELSE 0
      n == LeadClass(Slice(t, sp), k)
  IN IF n > 0 THEN sp + n ELSE 0

\* MatchAt without the last alternative, \s+$.
MatchAt_NoTrailing(t) ==
  IF /\ Head(t) = "'" /\ Len(t) >= 2 /\ t[2] \in {"s", "d", "m", "t"} THEN 2
  ELSE IF /\ Head(t) = "'" /\ Len(t) >= 3
          /\ SubSeq(t, 2, 3) \in {<<"l", "l">>, <<"v", "e">>, <<"r", "e">>} THEN 3
  ELSE IF OptSpaceThen(t, "L") > 0 THEN OptSpaceThen(t, "L")
  ELSE IF OptSpaceThen(t, "N") > 0 THEN OptSpaceThen(t, "N")
  ELSE IF OptSpaceThen(t, "O") > 0 THEN OptSpaceThen(t, "O")
  ELSE IF IsNewline(Head(t))
       THEN LET ws == LeadClass(Tail(t), "S") IN 1 + (IF ws > 3 THEN 3 ELSE ws)
  ELSE 0

\* The length the pattern matches at the start of the non-empty t, its
\* alternatives tried in order; 0 when none matches.
MatchAt(t) ==
  IF /\ Head(t) = "'" /\ Len(t) >= 2 /\ t[2] \in {"s", "d", "m", "t"} THEN 2
  ELSE IF /\ Head(t) = "'" /\ Len(t) >= 3
          /\ SubSeq(t, 2, 3) \in {<<"l", "l">>, <<"v", "e">>, <<"r", "e">>} THEN 3
  ELSE IF OptSpaceThen(t, "L") > 0 THEN OptSpaceThen(t, "L")
  ELSE IF OptSpaceThen(t, "N") > 0 THEN OptSpaceThen(t, "N")
  ELSE IF OptSpaceThen(t, "O") > 0 THEN OptSpaceThen(t, "O")
  ELSE IF IsNewline(Head(t))
       THEN LET ws == LeadClass(Tail(t), "S") IN 1 + (IF ws > 3 THEN 3 ELSE ws)
  ELSE IF LeadClass(t, "S") = Len(t) THEN Len(t)
  ELSE 0

\* text.match(pattern) || []: the matches from left to right; a character
\* at which no alternative matches is passed over.
RECURSIVE Matches(_)
Matches(text) ==
  IF text = <<>> THEN <<>>
  ELSE LET n == MatchAt(text)
       IN IF n = 0 THEN Matches(Tail(text))
          ELSE <<SubSeq(text, 1, n)>> \o Matches(Slice(text, n))

\* ---- a vocabulary file
\* A merged token of the vocabulary, "as".
TokAs == TokBlank + 1
\* The id of the byte-level symbol of byte b is ByteBase + b.
ByteBase == TokAs + 1

\* The ids of the vocabulary entries longer than one symbol.
NamedIds == PadId..TokAs

\* model.vocab of the file: the text of entry id.
VocabText(id) ==
  IF id = PadId THEN <<"<", "p", "a", "d", ">">>
  ELSE IF id = UnkId THEN <<"<", "u", "n", "k", ">">>
  ELSE IF id = BosId THEN <<"<", "b", "o", "s", ">">>
  ELSE IF id = EosId THEN <<"<", "e", "o", "s", ">">>
  ELSE IF id = TokAs THEN <<"a", "s">>
  ELSE TokenText(id)

\* model.merges of the file, in rank order: "a"+"s", then " "+"a".
Merges ==
  << <<textToBytes(<<"a">>), textToBytes(<<"s">>)>>,
     <<textToBytes(<<SP>>), textToBytes(<<"a">>)>> >>

\* The entries of NamedIds as symbols.
VocabTokens == [id \in NamedIds |-> textToBytes(VocabText(id))]

\* this.vocab.get(token) for a token given as its symbols; with full the
\* file has every byte-level symbol, without it only those of bytes below 128.
VocabId(full, token) ==
  IF \E id \in NamedIds : VocabTokens[id] = token
  THEN CHOOSE id \in NamedIds : VocabTokens[id] = token
  ELSE IF /\ Len(token) = 1
          /\ UnicodeToByte(token[1]) # Undefined
          /\ (full \/ UnicodeToByte(token[1]) < 128)
  THEN ByteBase + UnicodeToByte(token[1])
  ELSE Undefined

\* this.reverseVocab has an entry for id.
InReverseVocab(full, id) ==
  \/ id \in NamedIds
  \/ id - ByteBase \in 0..255 /\ (full \/ id - ByteBase < 128)

\* this.reverseVocab.get(id) for an id with an entry, as the symbols of the
\* token.
ReverseVocab(full, id) ==
  IF id \in NamedIds THEN VocabTokens[id]
  ELSE <<ByteToUnicode(id - ByteBase)>>

\* ---- Tokenizer
\* this.merges.get(first + " " + second): the rank, Undefined for none.
MergeRank(first, second) ==
  IF \E r \in DOMAIN Merges : Merges[r] = <<first, second>>
  THEN CHOOSE r \in DOMAIN Merges : Merges[r] = <<first, second>>
  ELSE Undefined

\* The inner loop of bpe that goes on at j + 1 after a merge (i = j + 1).
RECURSIVE MergePair_KeepSecond(_, _, _)
MergePair_KeepSecond(word, first, second) ==
  IF word = <<>> THEN <<>>
  ELSE IF Head(word) = first /\ Len(word) >= 2 /\ word[2] = second
       THEN <<first \o second>> \o MergePair_KeepSecond(Tail(word), first, second)
  ELSE <<Head(word)>> \o MergePair_KeepSecond(Tail(word), first, second)

\* The inner loop of bpe that pushes first in place of first + second.
RECURSIVE MergePair_DropSecond(_, _, _)
MergePair_DropSecond(word, first, second) ==
  IF word = <<>> THEN <<>>
  ELSE IF Head(word) = first /\ Len(word) >= 2 /\ word[2] = second
       THEN <<first>> \o MergePair_DropSecond(SubSeq(word, 3, Len(word)), first, second)
  ELSE <<Head(word)>> \o MergePair_DropSecond(Tail(word), first, second)

\* The inner loop of bpe that merges the first occurrence only.
RECURSIVE MergePair_FirstOnly(_, _, _)
MergePair_FirstOnly(word, first, second) ==
  IF word = <<>> THEN <<>>
  ELSE IF Head(word) = first /\ Len(word) >= 2 /\ word[2] = second
       THEN <<first \o second>> \o SubSeq(word, 3, Len(word))
  ELSE <<Head(word)>> \o MergePair_FirstOnly(Tail(word), first, second)

\* The inner loop of bpe: every occurrence of first followed by second,
\* from the left, becomes one token.
RECURSIVE MergePair(_, _, _)
MergePair(word, first, second) ==
  IF word = <<>> THEN <<>>
  ELSE IF Head(word) = first /\ Len(word) >= 2 /\ word[2] = second
       THEN <<first \o second>> \o MergePair(SubSeq(word, 3, Len(word)), first, second)
  ELSE <<Head(word)>> \o MergePair(Tail(word), first, second)

\* The while (true) loop of bpe on a word of two or more tokens.
RECURSIVE BpeLoop(_)
BpeLoop(word) ==
  LET ranked == {i \in 1..(Len(word) - 1) : MergeRank(word[i], word[i + 1]) # Undefined}
  IN IF ranked = {} THEN word
     ELSE LET i == CHOOSE k \in ranked :
                     \A m \in ranked :
                       MergeRank(word[k], word[k + 1]) <= MergeRank(word[m], word[m + 1])
              newWord == MergePair(word, word[i], word[i + 1])
          IN IF Len(newWord) = 1 THEN newWord ELSE BpeLoop(newWord)

\* The same loop, with the value of word on entry and after each pass.
RECURSIVE BpeLoopWords(_)
BpeLoopWords(word) ==
  LET ranked == {i \in 1..(Len(word) - 1) : MergeRank(word[i], word[i + 1]) # Undefined}
  IN IF ranked = {} THEN <<word>>
     ELSE LET i == CHOOSE k \in ranked :
                     \A m \in ranked :
                       MergeRank(word[k], word[k + 1]) <= MergeRank(word[m], word[m + 1])
              newWord == MergePair(word, word[i], word[i + 1])
          IN IF Len(newWord) = 1 THEN <<word, newWord>>
             ELSE <<word>> \o BpeLoopWords(newWord)

\* Tokenizer.bpe on the symbols of one match.
bpe(full, token) ==
  IF VocabId(full, token) # Undefined THEN <<token>>
  ELSE IF Len(token) = 0 THEN <<>>
  ELSE IF Len(token) = 1 THEN <<token>>
  ELSE BpeLoop([i \in 1..Len(token) |-> <<token[i]>>])

\* Tokenizer.tokenizeWord
tokenizeWord(full, word) ==
  LET bpeTokens == bpe(full, textToBytes(word))
  IN [i \in 1..Len(bpeTokens) |->
        IF VocabId(full, bpeTokens[i]) # Undefined
        THEN VocabId(full, bpeTokens[i]) ELSE UnkId]

\* for (const match of matches) tokens.push(...this.tokenizeWord(match))
RECURSIVE PushMatches(_, _, _)
PushMatches(full, tokens, matches) ==
  IF matches = <<>> THEN tokens
  ELSE PushMatches(full, tokens \o tokenizeWord(full, Head(matches)), Tail(matches))

\* The padding loop of encode.
RECURSIVE PadTo(_, _, _)
PadTo(tokens, mask, maxLength) ==
  IF Len(tokens) < maxLength
  THEN PadTo(Append(tokens, PadId), Append(mask, 0), maxLength)
  ELSE [inputIds |-> tokens, attentionMask |-> mask]

\* encode without the truncation to maxLength.
encode_NoTruncate(full, text, maxLength) ==
  LET all == Append(PushMatches(full, <<BosId>>, Matches(text)), EosId)
  IN PadTo(all, [i \in 1..Len(all) |-> 1], maxLength)

\* Tokenizer.encode
encode(full, text, maxLength) ==
  LET all == Append(PushMatches(full, <<BosId>>, Matches(text)), EosId)
      tokens == IF Len(all) > maxLength THEN SubSeq(all, 1, maxLength) ELSE all
  IN PadTo(tokens, [i \in 1..Len(tokens) |-> 1], maxLength)

\* encodeForGeneration with the end id pushed as encode does.
encodeForGeneration_WithEos(full, text) ==
  Append(PushMatches(full, <<BosId>>, Matches(text)), EosId)

\* Tokenizer.encodeForGeneration
encodeForGeneration(full, text) == PushMatches(full, <<BosId>>, Matches(text))

\* KeptSymbols without the skip of the special ids.
RECURSIVE KeptSymbols_KeepSpecial(_, _)
KeptSymbols_KeepSpecial(full, tokenIds) ==
  IF tokenIds = <<>> THEN <<>>
  ELSE LET id == Head(tokenIds)
           rest == KeptSymbols_KeepSpecial(full, Tail(tokenIds))
       IN IF ~InReverseVocab(full, id) THEN rest
          ELSE ReverseVocab(full, id) \o rest

\* The symbols of the tokens decode keeps: special ids and ids without a
\* reverse-vocabulary entry are skipped.
RECURSIVE KeptSymbols(_, _)
KeptSymbols(full, tokenIds) ==
  IF tokenIds = <<>> THEN <<>>
  ELSE LET id == Head(tokenIds)
           rest == KeptSymbols(full, Tail(tokenIds))
       IN IF id \in {PadId, BosId, EosId, UnkId} THEN rest
          ELSE IF ~InReverseVocab(full, id) THEN rest
          ELSE ReverseVocab(full, id) \o rest

\* The bytes of the symbols; a symbol UNICODE_TO_BYTE lacks is skipped.
RECURSIVE SymbolsToBytes(_)
SymbolsToBytes(symbols) ==
  IF symbols = <<>> THEN <<>>
  ELSE IF UnicodeToByte(Head(symbols)) = Undefined THEN SymbolsToBytes(Tail(symbols))
  ELSE <<UnicodeToByte(Head(symbols))>> \o SymbolsToBytes(Tail(symbols))

\* Tokenizer.decode
decode(full, tokenIds) == Utf8Decode(SymbolsToBytes(KeptSymbols(full, tokenIds)))

\* ------------------------------------------------------------- sampling
\* Logits are integers.  A penalty is a number of halves (3 is 1.5), and an
\* adjusted score is the exact fraction num / den, den > 0: the rounding of
\* 32-bit floats is not modelled.
RECURSIVE Pow(_, _)
Pow(b, e) == IF e = 0 THEN 1 ELSE b * Pow(b, e - 1)

\* applyRepetitionPenalty that divides whatever the sign of the score.
applyRepetitionPenalty_AlwaysDivide(logits, tokenCounts, halves) ==
  IF halves <= 2 THEN [i \in DOMAIN logits |-> [num |-> logits[i], den |-> 1]]
  ELSE [i \in DOMAIN logits |->
          IF (i - 1) \in DOMAIN tokenCounts
          THEN [num |-> logits[i] * Pow(2, tokenCounts[i - 1]),
                den |-> Pow(halves, tokenCounts[i - 1])]
          ELSE [num |-> logits[i], den |-> 1]]

\* applyRepetitionPenalty(logits, tokenCounts, penalty), penalty = halves / 2.
\* tokenCounts is a function from token ids (0-based) to counts; an id at or
\* beyond the length of logits is passed over.
applyRepetitionPenalty(logits, tokenCounts, halves) ==
  IF halves <= 2 THEN [i \in DOMAIN logits |-> [num |-> logits[i], den |-> 1]]
  ELSE [i \in DOMAIN logits |->
          IF (i - 1) \in DOMAIN tokenCounts
          THEN LET scaledNum == Pow(halves, tokenCounts[i - 1])
                   scaledDen == Pow(2, tokenCounts[i - 1])
               IN IF logits[i] > 0
                  THEN [num |-> logits[i] * scaledDen, den |-> scaledNum]
                  ELSE [num |-> logits[i] * scaledNum, den |-> scaledDen]
          ELSE [num |-> logits[i], den |-> 1]]

\* indexed.sort((a, b) => b.val - a.val) of the entries put in one by one:
\* Array.prototype.sort is stable, so x goes behind every entry whose value
\* is not below its own.
RECURSIVE SortInsert(_, _)
SortInsert(sorted, x) ==
  IF sorted = <<>> THEN <<x>>
  ELSE IF Head(sorted).val >= x.val THEN <<Head(sorted)>> \o SortInsert(Tail(sorted), x)
  ELSE <<x>> \o sorted

RECURSIVE SortDescending(_)
SortDescending(indexed) ==
  IF indexed = <<>> THEN <<>>
  ELSE SortInsert(SortDescending(SubSeq(indexed, 1, Len(indexed) - 1)),
                  indexed[Len(indexed)])

\* topKFilter without the sort.
topKFilter_NoSort(logits, k) ==
  LET indexed == [i \in DOMAIN logits |-> [val |-> logits[i], idx |-> i - 1]]
      topK == SubSeq(indexed, 1, IF k < Len(indexed) THEN k ELSE Len(indexed))
  IN [indices |-> [j \in DOMAIN topK |-> topK[j].idx],
      logits |-> [j \in DOMAIN topK |-> topK[j].val]]

\* topKFilter(logits, k) for an integer k >= 0.
topKFilter(logits, k) ==
  LET indexed == SortDescending([i \in DOMAIN logits |-> [val |-> logits[i], idx |-> i - 1]])
      topK == SubSeq(indexed, 1, IF k < Len(indexed) THEN k ELSE Len(indexed))
  IN [indices |-> [j \in DOMAIN topK |-> topK[j].idx],
      logits |-> [j \in DOMAIN topK |-> topK[j].val]]

\* temperatureScale(logits, temperature) of exact fractions, for an integer
\* temperature.
temperatureScale(logits, temperature) ==
  IF temperature <= 0 THEN logits
  ELSE [i \in DOMAIN logits |-> [num |-> logits[i].num, den |-> logits[i].den * temperature]]

\* Math.exp(d) for d <= 0, in eighths and rounded: it underflows to 0 from
\* -3 on, as the float does from about -104 on.
Exp8(d) == IF d = 0 THEN 8 ELSE IF d = -1 THEN 3 ELSE IF d = -2 THEN 1 ELSE 0

\* expScores of sampleFromLogits and softmaxMax: Math.exp(logits[i] -
\* maxLogit) of integer logits counted in units of 1 / unit (the difference
\* is held to the whole).
ExpScores(logits, unit) ==
  LET maxLogit == CHOOSE v \in {logits[i] : i \in DOMAIN logits} :
                    \A i \in DOMAIN logits : v >= logits[i]
  IN [i \in DOMAIN logits |-> Exp8(-((maxLogit - logits[i]) \div unit))]

\* The sum of the numbers of a sequence.
RECURSIVE Sum(_)
Sum(ws) == IF ws = <<>> THEN 0 ELSE Head(ws) + Sum(Tail(ws))

\* softmaxMax(logits) as the fraction maxExp / sumExp; 0 / 0 (NaN) for an
\* empty vector.
softmaxMax(logits, unit) ==
  LET expScores == ExpScores(logits, unit)
  IN [num |-> IF logits = <<>> THEN 0
              ELSE CHOOSE w \in {expScores[i] : i \in DOMAIN expScores} :
                     \A i \in DOMAIN expScores : w >= expScores[i],
      den |-> Sum(expScores)]

\* sampleFromLogits(logits) for the threshold r = Math.random() * sumExp: the
\* first index whose cumulative sum reaches r, the last index (length - 1)
\* when none does.
sampleFromLogits(logits, unit, r) ==
  LET expScores == ExpScores(logits, unit)
      reached == {i \in DOMAIN expScores : r <= Sum(SubSeq(expScores, 1, i))}
  IN IF reached = {} THEN Len(expScores) - 1
     ELSE (CHOOSE i \in reached : \A j \in reached : i <= j) - 1

\* The thresholds of one call: Math.random() * sumExp lies in [0, sumExp);
\* sumExp + 1 stands for a threshold no comparison reaches (NaN).
Thresholds(logits, unit) == 0..(Sum(ExpScores(logits, unit)) + 1)

\* The occurrences of each id of ids (tokenCounts of a step).
TokenCounts(ids) ==
  [id \in {ids[i] : i \in DOMAIN ids} |-> Cardinality({i \in DOMAIN ids : ids[i] = id})]

\* One step of AutocompleteEngine.generate from the logits of the last
\* position to the sampled token: the scores are brought to whole numbers
\* of 1 / unit before the top-K filter.  stop tells that the top probability
\* is below minConfidence (percent) and the step returns before sampling;
\* nextToken is Undefined when indices[sampledIdx] is no element of indices.
generateStep(lastLogits, ids, halves, temperature, topK, minConfidence, r) ==
  LET tokenCounts == TokenCounts(ids)
      penalizedLogits == applyRepetitionPenalty(lastLogits, tokenCounts, halves)
      scaled == temperatureScale(penalizedLogits, temperature)
      unit == Pow(2 * halves, Len(ids)) * (IF temperature <= 0 THEN 1 ELSE temperature)
      units == [i \in DOMAIN scaled |-> (scaled[i].num * unit) \div scaled[i].den]
      top == topKFilter(units, topK)
      topProb == softmaxMax(top.logits, unit)
      sampledIdx == sampleFromLogits(top.logits, unit, r)
  IN [penalized |-> penalizedLogits, scaled |-> scaled, unit |-> unit, top |-> top,
      stop |-> minConfidence > 0 /\ top.logits # <<>>
                 /\ topProb.num * 100 < minConfidence * topProb.den,
      nextToken |-> IF sampledIdx + 1 \in DOMAIN top.indices
                    THEN top.indices[sampledIdx + 1] ELSE Undefined]

\* ------------------------------------------------------------- state
VARIABLES
  input,             \* let input
  suggestion,        \* let suggestion
  results,           \* let results: <<>> (null) or <<text classified>>
  status,            \* let status
  classifying,       \* classifyPrompt calls not yet settled: their texts, in call order
  autocompleteTimer, \* let autocompleteTimer: Null or the handle setTimeout returned
  timers,            \* the event loop's armed debounce timers: [id, text]
  nTimers,           \* handles setTimeout has returned so far
  autocompleteAbort, \* let autocompleteAbort: Null or the run whose controller it holds
  isGenerating,      \* let isGenerating
  runs,              \* the timer callbacks started so far, one record per run
  uncaught,          \* an exception left a handler uncaught
  keys,              \* key events handled so far
  lastKey,           \* the kind of the last key event handled
  stream,            \* the library's token stream (autocompleteStream), or NoStream
  call               \* the tokenizer or sampling call under way, or NoCall

vars == <<input, suggestion, results, status, classifying, autocompleteTimer, timers,
          nTimers, autocompleteAbort, isGenerating, runs, uncaught, keys, lastKey, stream,
          call>>

\* No tokenizer or sampling call is under way.
NoCall == [fn |-> "none"]

\* ------------------------------------------------------ generation engine
\* AutocompleteEngine.generate as a cursor.  st: "start" (created, body not
\* entered), "scoring" (suspended in await session.run), "yield" (suspended
\* at yield), "done" (returned, threw or was closed).  ids holds the ids
\* pushed after the caller's inputIds; step is the loop counter; scored and
\* yielded record the scorer invocations made and the tokens yielded; fault
\* records that the generator ended by throwing.
\* inputIds is the caller's array (a begin id unless the caller is given),
\* and fed the sequences the scorer was invoked with, in order.
GenCreate ==
  [st |-> "start", step |-> 0, ids |-> <<>>, scored |-> 0, yielded |-> <<>>,
   fault |-> FALSE, inputIds |-> <<BosId>>, fed |-> <<>>]

\* GenNext with the loop condition step <= maxNewTokens.
GenNext_OffByOne(g, aborted, maxNewTokens) ==
  LET step == IF g.st = "yield" THEN g.step + 1 ELSE 0 IN
  IF step > maxNewTokens THEN [g EXCEPT !.st = "done", !.step = step]
  ELSE IF aborted THEN [g EXCEPT !.st = "done", !.step = step]
  ELSE [g EXCEPT !.st = "scoring", !.step = step, !.scored = @ + 1,
                 !.fed = Append(@, g.inputIds \o g.ids)]

\* GenNext without the signal check at the top of the step.
GenNext_NoSignal(g, aborted, maxNewTokens) ==
  LET step == IF g.st = "yield" THEN g.step + 1 ELSE 0 IN
  IF step >= maxNewTokens THEN [g EXCEPT !.st = "done", !.step = step]
  ELSE [g EXCEPT !.st = "scoring", !.step = step, !.scored = @ + 1,
                 !.fed = Append(@, g.inputIds \o g.ids)]

\* The consumer's next(): from "start" the loop is entered at step 0, from
\* "yield" the loop counter is incremented; then the loop condition, the
\* signal check at the top of the step, and the scorer invocation.
GenNext(g, aborted, maxNewTokens) ==
  LET step == IF g.st = "yield" THEN g.step + 1 ELSE 0 IN
  IF step >= maxNewTokens THEN [g EXCEPT !.st = "done", !.step = step]
  ELSE IF aborted THEN [g EXCEPT !.st = "done", !.step = step]
  ELSE [g EXCEPT !.st = "scoring", !.step = step, !.scored = @ + 1,
                 !.fed = Append(@, g.inputIds \o g.ids)]

\* GenScored without the comparison of the sampled token with eos.
GenScored_YieldEos(g, o, minConfidence) ==
  IF o.kind = "throw" THEN [g EXCEPT !.st = "done", !.fault = TRUE]
  ELSE IF minConfidence > 0 /\ o.top < minConfidence THEN [g EXCEPT !.st = "done"]
  ELSE [g EXCEPT !.st = "yield", !.ids = Append(@, o.id), !.yielded = Append(@, o.id)]

\* GenScored without the minConfidence check.
GenScored_NoConfidence(g, o, minConfidence) ==
  IF o.kind = "throw" THEN [g EXCEPT !.st = "done", !.fault = TRUE]
  ELSE IF o.id = EosId THEN [g EXCEPT !.st = "done"]
  ELSE [g EXCEPT !.st = "yield", !.ids = Append(@, o.id), !.yielded = Append(@, o.id)]

\* GenScored that goes on to the next step without waiting for the
\* consumer's request.
GenScored_Eager(g, o, minConfidence) ==
  IF o.kind = "throw" THEN [g EXCEPT !.st = "done", !.fault = TRUE]
  ELSE IF minConfidence > 0 /\ o.top < minConfidence THEN [g EXCEPT !.st = "done"]
  ELSE IF o.id = EosId THEN [g EXCEPT !.st = "done"]
  ELSE [g EXCEPT !.st = "yield", !.ids = Append(@, o.id), !.yielded = Append(@, o.id),
                 !.scored = @ + 1]

\* GenScored that pushes the sampled token to the caller's array as well,
\* as if ids were inputIds itself and not a copy of it.
GenScored_SharedInput(g, o, minConfidence) ==
  IF o.kind = "throw" THEN [g EXCEPT !.st = "done", !.fault = TRUE]
  ELSE IF minConfidence > 0 /\ o.top < minConfidence THEN [g EXCEPT !.st = "done"]
  ELSE IF o.id = EosId THEN [g EXCEPT !.st = "done"]
  ELSE [g EXCEPT !.st = "yield", !.ids = Append(@, o.id), !.yielded = Append(@, o.id),
                 !.inputIds = Append(@, o.id)]

\* The scorer invocation settles with outcome o: "throw" (session.run
\* rejects) or "logits", with the top probability among the top-K filtered
\* candidates (softmaxMax, in percent) and the vocabulary id the sampling
\* would return.
GenScored(g, o, minConfidence) ==
  IF o.kind = "throw" THEN [g EXCEPT !.st = "done", !.fault = TRUE]
  ELSE IF minConfidence > 0 /\ o.top < minConfidence THEN [g EXCEPT !.st = "done"]
  ELSE IF o.id = EosId THEN [g EXCEPT !.st = "done"]
  ELSE [g EXCEPT !.st = "yield", !.ids = Append(@, o.id), !.yielded = Append(@, o.id)]

\* The consumer leaves the for-await loop early (return or throw in its
\* body): the generator is closed at its yield.
GenReturn(g) == [g EXCEPT !.st = "done"]

\* Outcomes of one scorer invocation: top probabilities from tops, sampled
\* ids from ids.
Outcomes(tops, ids) ==
  {[kind |-> "throw", top |-> 0, id |-> Null]}
    \cup {[kind |-> "logits", top |-> p, id |-> t] : p \in tops, t \in ids}

\* Top probabilities (percent) the scorer's logits give.
TopProbs == {50, 100}

\* ------------------------------------------------------------ coordinator
\* The coordinator's variables as one record, so that the handlers compose
\* as the functions of the source do.
Coord ==
  [input |-> input, suggestion |-> suggestion, results |-> results, status |-> status,
   classifying |-> classifying, autocompleteTimer |-> autocompleteTimer,
   timers |-> timers, nTimers |-> nTimers, autocompleteAbort |-> autocompleteAbort,
   isGenerating |-> isGenerating, runs |-> runs, uncaught |-> uncaught]

Commit(c) ==
  /\ input' = c.input
  /\ suggestion' = c.suggestion
  /\ results' = c.results
  /\ status' = c.status
  /\ classifying' = c.classifying
  /\ autocompleteTimer' = c.autocompleteTimer
  /\ timers' = c.timers
  /\ nTimers' = c.nTimers
  /\ autocompleteAbort' = c.autocompleteAbort
  /\ isGenerating' = c.isGenerating
  /\ runs' = c.runs
  /\ uncaught' = c.uncaught

\* autocompleteEngine.isLoaded(): main awaits loadAllModels before any key.
isLoaded == TRUE

\* AbortController.abort() on the controller autocompleteAbort holds.
AbortRun(rs, r) ==
  [i \in DOMAIN rs |-> IF i = r THEN [rs[i] EXCEPT !.aborted = TRUE] ELSE rs[i]]

\* cancelAutocomplete without autocompleteAbort.abort().
cancelAutocomplete_NoAbort(c) ==
  LET c1 == IF c.autocompleteTimer # Null
            THEN [c EXCEPT !.timers = {t \in @ : t.id # c.autocompleteTimer},
                           !.autocompleteTimer = Null]
            ELSE c
  IN [c1 EXCEPT !.autocompleteAbort = Null, !.isGenerating = FALSE]

\* cancelAutocomplete without clearTimeout(autocompleteTimer).
cancelAutocomplete_KeepTimer(c) ==
  LET c1 == [c EXCEPT !.autocompleteTimer = Null]
      c2 == IF c1.autocompleteAbort # Null
            THEN [c1 EXCEPT !.runs = AbortRun(@, c1.autocompleteAbort),
                            !.autocompleteAbort = Null]
            ELSE c1
  IN [c2 EXCEPT !.isGenerating = FALSE]

cancelAutocomplete(c) ==
  LET c1 == IF c.autocompleteTimer # Null
            THEN [c EXCEPT !.timers = {t \in @ : t.id # c.autocompleteTimer},
                           !.autocompleteTimer = Null]
            ELSE c
      c2 == IF c1.autocompleteAbort # Null
            THEN [c1 EXCEPT !.runs = AbortRun(@, c1.autocompleteAbort),
                            !.autocompleteAbort = Null]
            ELSE c1
  IN [c2 EXCEPT !.isGenerating = FALSE]

\* requestAutocomplete without the early return on a blank text.
requestAutocomplete_NoBlankCheck(c, text) ==
  LET c1 == [cancelAutocomplete(c) EXCEPT !.suggestion = <<>>]
  IN [c1 EXCEPT !.nTimers = @ + 1,
                !.autocompleteTimer = c1.nTimers + 1,
                !.timers = @ \cup {[id |-> c1.nTimers + 1, text |-> Trim(text)]}]

\* requestAutocomplete that hands the untrimmed text to the timer callback.
requestAutocomplete_NoTrim(c, text) ==
  LET c1 == [cancelAutocomplete(c) EXCEPT !.suggestion = <<>>]
  IN IF Trim(text) = <<>> \/ ~isLoaded THEN c1
     ELSE [c1 EXCEPT !.nTimers = @ + 1,
                     !.autocompleteTimer = c1.nTimers + 1,
                     !.timers = @ \cup {[id |-> c1.nTimers + 1, text |-> text]}]

\* requestAutocomplete without its call of cancelAutocomplete.
requestAutocomplete_NoCancel(c, text) ==
  LET c1 == [c EXCEPT !.suggestion = <<>>]
      trimmed == Trim(text)
  IN IF trimmed = <<>> \/ ~isLoaded THEN c1
     ELSE [c1 EXCEPT !.nTimers = @ + 1,
                     !.autocompleteTimer = c1.nTimers + 1,
                     !.timers = @ \cup {[id |-> c1.nTimers + 1, text |-> trimmed]}]

requestAutocomplete(c, text) ==
  LET c1 == [cancelAutocomplete(c) EXCEPT !.suggestion = <<>>]
      trimmed == Trim(text)
  IN IF trimmed = <<>> \/ ~isLoaded THEN c1
     ELSE [c1 EXCEPT !.nTimers = @ + 1,
                     !.autocompleteTimer = c1.nTimers + 1,
                     !.timers = @ \cup {[id |-> c1.nTimers + 1, text |-> trimmed]}]

\* acceptSuggestion with the leading whitespace of the match dropped.
acceptSuggestion_StripLead(s) ==
  LET lead == LeadWs(s)
      word == LeadNonWs(Slice(s, lead))
      trail == LeadWs(Slice(s, lead + word))
      rawLen == IF word = 0 THEN Len(s) ELSE lead + word + trail
      remaining == Slice(s, rawLen)
      accepted == SubSeq(s, lead + 1, lead + word)
  IN [remaining |-> remaining,
      accepted |-> IF accepted = <<>> THEN <<>>
                   ELSE IF Len(remaining) > 0 THEN accepted \o <<SP>>
                   ELSE accepted]

\* acceptSuggestion on a non-empty suggestion s: the text returned and the
\* suggestion left.  /^\s*\S+\s*/ fails to match only when s is all
\* whitespace, and then the whole of s is taken.
acceptSuggestion(s) ==
  LET lead == LeadWs(s)
      word == LeadNonWs(Slice(s, lead))
      trail == LeadWs(Slice(s, lead + word))
      rawLen == IF word = 0 THEN Len(s) ELSE lead + word + trail
      rawAccepted == SubSeq(s, 1, rawLen)
      remaining == Slice(s, rawLen)
      accepted == RTrim(FlattenNewlines(rawAccepted))
  IN [remaining |-> remaining,
      accepted |-> IF accepted = <<>> THEN <<>>
                   ELSE IF Len(remaining) > 0 THEN accepted \o <<SP>>
                   ELSE accepted]

\* ------------------------------------------------------------ key handlers
\* handleKey, one operator per branch, each from the coordinator record
\* before the key to the record after it.

\* Ctrl+U
handleCtrlU(c) ==
  cancelAutocomplete([c EXCEPT !.input = <<>>, !.suggestion = <<>>,
                               !.results = <<>>, !.status = ""])

\* The Tab branch without the request after the last word was accepted.
handleTab_NoRequest(c) ==
  IF c.suggestion = <<>> THEN c
  ELSE LET a == acceptSuggestion(c.suggestion)
           accepted == IF EndsWithSpace(c.input) /\ StartsWith(a.accepted, <<SP>>)
                       THEN Slice(a.accepted, 1)
                       ELSE a.accepted
       IN [c EXCEPT !.suggestion = a.remaining, !.input = @ \o accepted]

\* Tab
handleTab(c) ==
  IF c.suggestion = <<>> THEN c
  ELSE LET a == acceptSuggestion(c.suggestion)
           accepted == IF EndsWithSpace(c.input) /\ StartsWith(a.accepted, <<SP>>)
                       THEN Slice(a.accepted, 1)
                       ELSE a.accepted
           c1 == [c EXCEPT !.suggestion = a.remaining, !.input = @ \o accepted]
       IN IF c1.suggestion = <<>> THEN requestAutocomplete(c1, c1.input) ELSE c1

\* Enter: classifyPrompt(input) is called and settles later (ClassifySettles).
handleEnter(c) ==
  IF Trim(c.input) = <<>> THEN c
  ELSE [cancelAutocomplete(c) EXCEPT !.suggestion = <<>>,
                                     !.status = "classifying...",
                                     !.classifying = Append(@, c.input)]

\* Alt+Enter
handleAltEnter(c) ==
  LET c1 == [cancelAutocomplete(c) EXCEPT !.suggestion = <<>>, !.results = <<>>,
                                          !.input = @ \o <<NL>>]
  IN requestAutocomplete(c1, c1.input)

\* Escape
handleEscape(c) ==
  [cancelAutocomplete(c) EXCEPT !.suggestion = <<>>, !.status = ""]

\* Backspace
handleBackspace(c) ==
  IF Len(c.input) = 0 THEN c
  ELSE LET c1 == [cancelAutocomplete([c EXCEPT !.input = SubSeq(@, 1, Len(@) - 1)])
                    EXCEPT !.suggestion = <<>>, !.results = <<>>]
       IN IF Trim(c1.input) # <<>> THEN requestAutocomplete(c1, c1.input) ELSE c1

\* Regular character input without the two suggestion-consuming cases.
handleTyped_NoAbsorb(c, str) ==
  LET c1 == [cancelAutocomplete([c EXCEPT !.input = @ \o str])
               EXCEPT !.suggestion = <<>>, !.results = <<>>]
  IN requestAutocomplete(c1, c1.input)

\* Regular character input with slice(1 + str.length) in both
\* suggestion-consuming cases.
handleTyped_SliceOneMore(c, str) ==
  IF c.suggestion # <<>> /\ StartsWith(c.suggestion, str)
  THEN [c EXCEPT !.suggestion = Slice(@, 1 + Len(str)), !.input = @ \o str]
  ELSE IF /\ c.suggestion # <<>>
          /\ EndsWithSpace(c.input)
          /\ StartsWith(c.suggestion, <<SP>>)
          /\ StartsWith(Slice(c.suggestion, 1), str)
  THEN [c EXCEPT !.suggestion = Slice(@, 1 + Len(str)), !.input = @ \o str]
  ELSE LET c1 == [cancelAutocomplete([c EXCEPT !.input = @ \o str])
                    EXCEPT !.suggestion = <<>>, !.results = <<>>]
       IN requestAutocomplete(c1, c1.input)

\* Regular character input: the two suggestion-consuming cases, then normal typing.
handleTyped(c, str) ==
  IF c.suggestion # <<>> /\ StartsWith(c.suggestion, str)
  THEN [c EXCEPT !.suggestion = Slice(@, Len(str)), !.input = @ \o str]
  ELSE IF /\ c.suggestion # <<>>
          /\ EndsWithSpace(c.input)
          /\ StartsWith(c.suggestion, <<SP>>)
          /\ StartsWith(Slice(c.suggestion, 1), str)
  THEN [c EXCEPT !.suggestion = Slice(@, 1 + Len(str)), !.input = @ \o str]
  ELSE LET c1 == [cancelAutocomplete([c EXCEPT !.input = @ \o str])
                    EXCEPT !.suggestion = <<>>, !.results = <<>>]
       IN requestAutocomplete(c1, c1.input)

\* One key event: the handler's effect, and the record of the key.
Key(kind, str, c) ==
  /\ Commit(c)
  /\ keys' = keys + 1
  /\ lastKey' = [kind |-> kind, str |-> str]
  /\ UNCHANGED <<stream, call>>

CtrlU == Key("CtrlU", <<>>, handleCtrlU(Coord))
Tab == Key("Tab", <<>>, handleTab(Coord))
Enter == Key("Enter", <<>>, handleEnter(Coord))
AltEnter == Key("AltEnter", <<>>, handleAltEnter(Coord))
Escape == Key("Escape", <<>>, handleEscape(Coord))
Backspace == Key("Backspace", <<>>, handleBackspace(Coord))
Typed(str) == Key("Typed", str, handleTyped(Coord, str))

\* Escape sequences and the remaining control characters are ignored.
IgnoredKey == UNCHANGED vars

\* ------------------------------------------------ the timer callback
\* The code after the for-await loop (reached on stream end and from catch).
finishRun(c) ==
  [c EXCEPT !.isGenerating = FALSE,
            !.status = IF c.suggestion # <<>> THEN "Tab to accept" ELSE ""]

\* The timer callback without its try/catch: the exception leaves the
\* callback and the code after the loop does not run.
catchRun_Rethrow(c) == [c EXCEPT !.uncaught = TRUE]

\* catch { } of the timer callback: the exception is swallowed and the code
\* after the loop runs.
catchRun(c) == finishRun(c)

\* The generator of run r is replaced by g.
SetGen(c, r, g) == [c EXCEPT !.runs[r].gen = g]

\* The debounce timer t fires: the callback runs up to the first await of
\* the generator (the first scorer invocation), or to its end.
timerCallback(c, t) ==
  LET r == Len(c.runs) + 1
      g == GenNext(GenCreate, FALSE, MaxNewTokens)
      c1 == [c EXCEPT !.timers = @ \ {t},
                      !.autocompleteAbort = r,
                      !.isGenerating = TRUE,
                      !.status = "generating...",
                      !.runs = Append(@, [prompt |-> t.text, aborted |-> FALSE,
                                          gen |-> g, delivered |-> <<>>])]
  IN IF g.st = "done" THEN finishRun(c1) ELSE c1

\* The loop body without its check of autocompleteAbort.signal.
loopBody_NoCheck(c, r, tokenId) ==
  LET c1 == [c EXCEPT !.suggestion = @ \o TokenText(tokenId),
                      !.status = "Tab to accept",
                      !.runs[r].delivered = Append(@, tokenId)]
      g == GenNext(c1.runs[r].gen, c1.runs[r].aborted, MaxNewTokens)
      c2 == SetGen(c1, r, g)
  IN IF g.st = "done" THEN finishRun(c2) ELSE c2

\* The body of the for-await loop for the token run r yielded, followed by
\* the loop's next request to the generator.
loopBody(c, r, tokenId) ==
  IF c.autocompleteAbort = Null
  THEN \* autocompleteAbort.signal: TypeError on null, inside try
       catchRun(SetGen(c, r, GenReturn(c.runs[r].gen)))
  ELSE IF c.runs[c.autocompleteAbort].aborted
  THEN \* return
       SetGen(c, r, GenReturn(c.runs[r].gen))
  ELSE LET c1 == [c EXCEPT !.suggestion = @ \o TokenText(tokenId),
                           !.status = "Tab to accept",
                           !.runs[r].delivered = Append(@, tokenId)]
           g == GenNext(c1.runs[r].gen, c1.runs[r].aborted, MaxNewTokens)
           c2 == SetGen(c1, r, g)
       IN IF g.st = "done" THEN finishRun(c2) ELSE c2

\* The scorer invocation run r awaits settles with outcome o.
scorerSettles(c, r, o) ==
  LET g == GenScored(c.runs[r].gen, o, MinConfidence)
      c1 == SetGen(c, r, g)
  IN IF o.kind = "throw" THEN catchRun(c1)
     ELSE IF g.st = "done" THEN finishRun(c1)
     ELSE loopBody(c1, r, o.id)

TimerFires ==
  \E t \in timers :
    /\ Commit(timerCallback(Coord, t))
    /\ UNCHANGED <<keys, lastKey, stream, call>>

ScorerSettles(ids) ==
  \E r \in DOMAIN runs : \E o \in Outcomes(TopProbs, ids) :
    /\ runs[r].gen.st = "scoring"
    /\ Commit(scorerSettles(Coord, r, o))
    /\ UNCHANGED <<keys, lastKey, stream, call>>

\* classifyPrompt settles: results are set from the text it was called
\* with, then the then-callback of Enter clears the status.
classifySettles(c, i) ==
  [c EXCEPT !.results = <<c.classifying[i]>>,
            !.status = "",
            !.classifying = SubSeq(@, 1, i - 1) \o SubSeq(@, i + 1, Len(@))]

ClassifySettles ==
  \E i \in DOMAIN classifying :
    /\ Commit(classifySettles(Coord, i))
    /\ UNCHANGED <<keys, lastKey, stream, call>>

\* ------------------------------------------------ the library's stream
NoStream ==
  [open |-> FALSE, gen |-> GenCreate, aborted |-> FALSE, startedAborted |-> FALSE,
   maxNewTokens |-> 0, minConfidence |-> 0, out |-> <<>>,
   last |-> [kind |-> "none", top |-> 0, id |-> Null]]

\* autocompleteStream's consumer requests the next element.
streamNext(s) ==
  [s EXCEPT !.gen = GenNext(s.gen, s.aborted, s.maxNewTokens),
            !.startedAborted = IF s.gen.st = "start" THEN s.aborted ELSE @]

\* The scorer invocation of the stream settles with outcome o (kept in
\* last); a yielded token is decoded and handed to the consumer.
streamScored(s, o) ==
  LET g == GenScored(s.gen, o, s.minConfidence)
  IN [s EXCEPT !.gen = g,
               !.last = o,
               !.out = IF g.st = "yield" THEN Append(@, TokenText(o.id)) ELSE @]

StreamNext ==
  /\ stream.open
  /\ stream.gen.st \in {"start", "yield"}
  /\ stream' = streamNext(stream)
  /\ UNCHANGED <<input, suggestion, results, status, classifying, autocompleteTimer,
                 timers, nTimers, autocompleteAbort, isGenerating, runs, uncaught,
                 keys, lastKey, call>>

StreamScored(ids) ==
  /\ stream.open
  /\ stream.gen.st = "scoring"
  /\ \E o \in Outcomes(TopProbs, ids) : stream' = streamScored(stream, o)
  /\ UNCHANGED <<input, suggestion, results, status, classifying, autocompleteTimer,
                 timers, nTimers, autocompleteAbort, isGenerating, runs, uncaught,
                 keys, lastKey, call>>

\* The caller sets opts.signal.
StreamAbort ==
  /\ stream.open
  /\ ~stream.aborted
  /\ stream' = [stream EXCEPT !.aborted = TRUE]
  /\ UNCHANGED <<input, suggestion, results, status, classifying, autocompleteTimer,
                 timers, nTimers, autocompleteAbort, isGenerating, runs, uncaught,
                 keys, lastKey, call>>

\* ------------------------------------------------------ specifications
\* Texts a key event carries in Spec.
TypedStrs == {<<"a">>, <<SP>>}

CoordInit ==
  /\ input = <<>>
  /\ suggestion = <<>>
  /\ results = <<>>
  /\ status = ""
  /\ classifying = <<>>
  /\ autocompleteTimer = Null
  /\ timers = {}
  /\ nTimers = 0
  /\ autocompleteAbort = Null
  /\ isGenerating = FALSE
  /\ runs = <<>>
  /\ uncaught = FALSE
  /\ keys = 0
  /\ lastKey = [kind |-> "none", str |-> <<>>]

Init == CoordInit /\ stream = NoStream /\ call = NoCall

KeyEvent(maxKeys, strs) ==
  \/ keys < maxKeys /\ CtrlU
  \/ keys < maxKeys /\ Tab
  \/ keys < maxKeys /\ Enter
  \/ keys < maxKeys /\ AltEnter
  \/ keys < maxKeys /\ Escape
  \/ keys < maxKeys /\ Backspace
  \/ keys < maxKeys /\ \E str \in strs : Typed(str)

Next ==
  \/ KeyEvent(MaxKeys, TypedStrs)
  \/ IgnoredKey
  \/ TimerFires
  \/ ScorerSettles(SampleIds)
  \/ ClassifySettles

Spec == Init /\ [][Next]_vars

\* ---- SpecEngine: one library stream, for every choice of its options.
EngineSampleIds == {UnkId, EosId, TokA, TokLoWorld}

\* opts.minConfidence, in percent: absent (0) or 0.6.
EngineMinConfidence == {0, 60}

\* The caller's inputIds: encodeForGeneration of "" and of " a".
EngineInputs == {<<BosId>>, <<BosId, TokA>>}

EngineInit ==
  /\ CoordInit
  /\ stream \in {[open |-> TRUE, gen |-> [GenCreate EXCEPT !.inputIds = i], aborted |-> a,
                  startedAborted |-> FALSE, maxNewTokens |-> m,
                  minConfidence |-> mc, out |-> <<>>,
                  last |-> [kind |-> "none", top |-> 0, id |-> Null]] :
                   a \in BOOLEAN, m \in 0..MaxNewTokens, mc \in EngineMinConfidence,
                   i \in EngineInputs}
  /\ call = NoCall

NextEngine ==
  \/ StreamNext
  \/ StreamScored(EngineSampleIds)
  \/ StreamAbort

SpecEngine == EngineInit /\ [][NextEngine]_vars

\* ---- SpecAccept: the terminal client from the states it is in after the
\* input inp was typed, its debounce timer fired and the run yielded the
\* tokens toks (and, with fin, ended below minConfidence).
AcceptInputs == {<<"h", "i">>, <<"h", "i", SP>>}

AcceptTokens == {TokWorld, TokPeaceNow, TokLoWorld, TokBlank, TokNl}

AcceptTokenSeqs ==
  {<<t>> : t \in AcceptTokens} \cup {<<t, u>> : t \in AcceptTokens, u \in AcceptTokens}

AcceptTyped == {<<"l", "o">>, <<"w">>, <<SP>>}

RECURSIVE Deliver(_, _)
Deliver(c, toks) ==
  IF toks = <<>> THEN c
  ELSE Deliver(scorerSettles(c, 1, [kind |-> "logits", top |-> 100, id |-> Head(toks)]), Tail(toks))

AcceptStart(inp, toks, fin) ==
  LET c0 == [input |-> inp, suggestion |-> <<>>, results |-> <<>>, status |-> "",
             classifying |-> <<>>, autocompleteTimer |-> Null, timers |-> {},
             nTimers |-> 0, autocompleteAbort |-> Null, isGenerating |-> FALSE,
             runs |-> <<>>, uncaught |-> FALSE]
      c1 == requestAutocomplete(c0, inp)
      c2 == timerCallback(c1, CHOOSE t \in c1.timers : TRUE)
      c3 == Deliver(c2, toks)
  IN IF fin /\ c3.runs[1].gen.st = "scoring"
     THEN scorerSettles(c3, 1, [kind |-> "logits", top |-> 50, id |-> EosId])
     ELSE c3

AcceptInit ==
  /\ \E inp \in AcceptInputs : \E toks \in AcceptTokenSeqs : \E fin \in BOOLEAN :
       LET c == AcceptStart(inp, toks, fin) IN
         /\ input = c.input
         /\ suggestion = c.suggestion
         /\ results = c.results
         /\ status = c.status
         /\ classifying = c.classifying
         /\ autocompleteTimer = c.autocompleteTimer
         /\ timers = c.timers
         /\ nTimers = c.nTimers
         /\ autocompleteAbort = c.autocompleteAbort
         /\ isGenerating = c.isGenerating
         /\ runs = c.runs
         /\ uncaught = c.uncaught
  /\ keys = 0
  /\ lastKey = [kind |-> "none", str |-> <<>>]
  /\ stream = NoStream
  /\ call = NoCall

NextAccept ==
  \/ KeyEvent(MaxAcceptKeys, AcceptTyped)
  \/ IgnoredKey
  \/ TimerFires
  \/ ScorerSettles(SampleIds)
  \/ ClassifySettles

SpecAccept == AcceptInit /\ [][NextAccept]_vars

\* ---- SpecTokenizer: calls of one loaded Tokenizer.
\* Longest text, largest maxLength, longest id sequence given to decode.
MaxTextLen == 3
MaxLength == 4
MaxIds == 3

\* The characters of the texts encoded.
TokChars == {"a", "s", "1", "'", SP, "\t", NL, Eacute}

\* An id beyond the vocabulary.
MissingId == ByteBase + 256

\* The ids of the sequences decoded.
DecodeIds ==
  {PadId, UnkId, EosId, TokA, ByteBase + 97, ByteBase + 195, ByteBase + 169, MissingId}

SeqsUpTo(S, n) == UNION {[1..m -> S] : m \in 0..n}

TokenizerCall(full, text, maxLength, ids, stage) ==
  [fn |-> "tokenizer", full |-> full, text |-> text, maxLength |-> maxLength,
   ids |-> ids, stage |-> stage,
   enc |-> [inputIds |-> <<>>, attentionMask |-> <<>>], dec |-> <<>>]

TokenizerInit ==
  /\ CoordInit
  /\ stream = NoStream
  /\ call \in {TokenizerCall(full, text, maxLength, <<>>, "text") :
                 full \in BOOLEAN, text \in SeqsUpTo(TokChars, MaxTextLen),
                 maxLength \in 0..MaxLength}
              \cup {TokenizerCall(full, <<>>, 0, ids, "ids") :
                      full \in BOOLEAN, ids \in SeqsUpTo(DecodeIds, MaxIds)}

UnchangedButCall ==
  UNCHANGED <<input, suggestion, results, status, classifying, autocompleteTimer,
              timers, nTimers, autocompleteAbort, isGenerating, runs, uncaught,
              keys, lastKey, stream>>

\* tokenizer.encode(text, maxLength)
CallEncode ==
  /\ call.fn = "tokenizer" /\ call.stage = "text"
  /\ call' = [call EXCEPT !.enc = encode(call.full, call.text, call.maxLength),
                          !.stage = "encoded"]
  /\ UnchangedButCall

\* tokenizer.encodeForGeneration(text)
CallEncodeForGeneration ==
  /\ call.fn = "tokenizer" /\ call.stage = "text"
  /\ call' = [call EXCEPT !.ids = encodeForGeneration(call.full, call.text),
                          !.stage = "generated"]
  /\ UnchangedButCall

\* tokenizer.decode(ids), of given ids or of the ids encodeForGeneration gave.
CallDecode ==
  /\ call.fn = "tokenizer" /\ call.stage \in {"ids", "generated"}
  /\ call' = [call EXCEPT !.dec = decode(call.full, call.ids),
                          !.stage = IF call.stage = "ids" THEN "decoded" ELSE "roundtrip"]
  /\ UnchangedButCall

NextTokenizer ==
  \/ CallEncode
  \/ CallEncodeForGeneration
  \/ CallDecode

SpecTokenizer == TokenizerInit /\ [][NextTokenizer]_vars

\* ---- SpecSampling: calls of the sampling functions on one logit vector.
MaxLogits == 3
MaxCount == 2

LogitValues == {-2, 0, 1, 2}
PenaltyHalves == {1, 2, 3, 4}

SamplingCall(logits) ==
  [fn |-> "sampling", stage |-> "logits", logits |-> logits, k |-> 0,
   id |-> 0, n |-> 0, halves |-> 2, top |-> [indices |-> <<>>, logits |-> <<>>],
   penalized |-> <<>>, before |-> <<>>, r |-> 0, index |-> 0, ids |-> <<>>,
   temperature |-> 0, minConfidence |-> 0,
   step |-> [penalized |-> <<>>, scaled |-> <<>>, unit |-> 1,
             top |-> [indices |-> <<>>, logits |-> <<>>], stop |-> FALSE,
             nextToken |-> 0]]

SamplingInit ==
  /\ CoordInit
  /\ stream = NoStream
  /\ \E logits \in SeqsUpTo(LogitValues, MaxLogits) : call = SamplingCall(logits)

\* topKFilter(logits, k).
CallTopKFilter ==
  /\ call.fn = "sampling" /\ call.stage = "logits"
  /\ \E k \in 0..(MaxLogits + 1) :
       call' = [call EXCEPT !.stage = "topK", !.k = k, !.top = topKFilter(call.logits, k)]
  /\ UnchangedButCall

\* applyRepetitionPenalty(logits, tokenCounts, penalty) where tokenCounts
\* holds n for id (and 1 for the id after it when more), and the same call
\* with one occurrence of id less.
CallApplyRepetitionPenalty ==
  /\ call.fn = "sampling" /\ call.stage = "logits"
  /\ \E id \in 0..MaxLogits, n \in 1..MaxCount, halves \in PenaltyHalves, more \in BOOLEAN :
       LET others == IF more THEN [i \in {(id + 1) % (MaxLogits + 1)} |-> 1] ELSE <<>>
           tokenCounts == [i \in {id} \cup DOMAIN others |-> IF i = id THEN n ELSE others[i]]
           fewer == IF n = 1 THEN others
                    ELSE [i \in DOMAIN tokenCounts |-> IF i = id THEN n - 1 ELSE others[i]]
       IN call' = [call EXCEPT !.stage = "penalized", !.id = id, !.n = n, !.halves = halves,
                     !.penalized = applyRepetitionPenalty(call.logits, tokenCounts, halves),
                     !.before = applyRepetitionPenalty(call.logits, fewer, halves)]
  /\ UnchangedButCall

\* sampleFromLogits(logits) with the threshold r.
CallSampleFromLogits ==
  /\ call.fn = "sampling" /\ call.stage = "logits"
  /\ \E r \in Thresholds(call.logits, 1) :
       call' = [call EXCEPT !.stage = "sampled", !.r = r,
                            !.index = sampleFromLogits(call.logits, 1, r)]
  /\ UnchangedButCall

\* Ids a step's working sequence holds: the begin id and n times the id 0.
StepIds == {<<BosId>> \o [i \in 1..n |-> 0] : n \in 0..MaxCount}

\* One step of generate on the logits of a non-empty vocabulary, for every
\* choice of the options and of the threshold.
CallGenerateStep ==
  /\ call.fn = "sampling" /\ call.stage = "logits" /\ call.logits # <<>>
  /\ \E ids \in StepIds, halves \in {2, 3}, temperature \in {0, 2},
        topK \in 0..(MaxLogits + 1), minConfidence \in EngineMinConfidence,
        r \in 0..(8 * MaxLogits + 1) :
       call' = [call EXCEPT !.stage = "stepped", !.ids = ids, !.halves = halves,
                  !.temperature = temperature, !.k = topK,
                  !.minConfidence = minConfidence,
                  !.step = generateStep(call.logits, ids, halves, temperature, topK,
                                        minConfidence, r)]
  /\ UnchangedButCall

NextSampling ==
  \/ CallTopKFilter
  \/ CallApplyRepetitionPenalty
  \/ CallSampleFromLogits
  \/ CallGenerateStep

SpecSampling == SamplingInit /\ [][NextSampling]_vars

\* ---- SpecLibrary: calls of the library API in one process.
MaxCalls == 2

\* opts.modelsDir ?? MODELS_DIR: the bundled directory or a custom one.
Dirs == {"MODELS_DIR", "custom"}

\* The tokenizer cache and the engine cache a library function reads.
CachesOf(op) ==
  [tokenizer |-> IF op \in {"autocomplete", "autocompleteStream"}
                 THEN "autocompleteTokenizerPromise" ELSE "classifierTokenizerPromise",
   engine |-> CASE op = "classifyDifficulty" -> "difficultyPromise"
                [] op = "classifyReasoningEffort" -> "effortPromise"
                [] op = "classifyCode" -> "codePromise"
                [] OTHER -> "autocompletePromise"]

LibraryOps ==
  {"classifyDifficulty", "classifyReasoningEffort", "classifyCode", "autocomplete",
   "autocompleteStream"}

\* The module's six cache variables: each null, or the promise of a load
\* from dir that is pending, fulfilled or rejected; loads counts the loads
\* started for it.
LibraryInit ==
  /\ CoordInit
  /\ stream = NoStream
  /\ call = [fn |-> "library",
             cache |-> [v \in {CachesOf(op)[f] : op \in LibraryOps, f \in {"tokenizer", "engine"}}
                          |-> [promise |-> "null", dir |-> "", loads |-> 0]],
             calls |-> <<>>]

\* A getter that caches the loaded object in place of the promise: a call
\* that finds the load still pending starts another.
getCached_NoShare(cache, v, dir) ==
  IF cache[v].promise \in {"null", "pending"}
  THEN [cache EXCEPT ![v] = [promise |-> "pending", dir |-> dir, loads |-> @.loads + 1]]
  ELSE cache

\* A getter that starts a new load when the cached promise is rejected.
getCached_Retry(cache, v, dir) ==
  IF cache[v].promise \in {"null", "rejected"}
  THEN [cache EXCEPT ![v] = [promise |-> "pending", dir |-> dir, loads |-> @.loads + 1]]
  ELSE cache

\* getClassifierTokenizer(dir), ..., getAutocompleteEngine(dir) on the cache
\* variable v: the load from dir starts only when the variable is null.
getCached(cache, v, dir) ==
  IF cache[v].promise = "null"
  THEN [cache EXCEPT ![v] = [promise |-> "pending", dir |-> dir, loads |-> @.loads + 1]]
  ELSE cache

\* await Promise.all([tokenizer, engine]) of every waiting call: it rejects
\* when one of the two promises is rejected and goes on with the tokenizer
\* and the engine when both are fulfilled.
awaitAll(cache, calls) ==
  [i \in DOMAIN calls |->
     LET c == calls[i]
         t == cache[CachesOf(c.op).tokenizer]
         e == cache[CachesOf(c.op).engine]
     IN IF c.st # "waiting" THEN c
        ELSE IF t.promise = "rejected" \/ e.promise = "rejected" THEN [c EXCEPT !.st = "rejected"]
        ELSE IF t.promise = "fulfilled" /\ e.promise = "fulfilled"
             THEN [c EXCEPT !.st = "running", !.tokenizerDir = t.dir, !.engineDir = e.dir]
        ELSE c]

\* A library function is called with opts.modelsDir giving dir.
LibraryCall ==
  /\ call.fn = "library" /\ Len(call.calls) < MaxCalls
  /\ \E op \in LibraryOps, dir \in Dirs :
       LET c1 == getCached(call.cache, CachesOf(op).tokenizer, dir)
           c2 == getCached(c1, CachesOf(op).engine, dir)
           calls == Append(call.calls, [op |-> op, dir |-> dir, st |-> "waiting",
                                        tokenizerDir |-> "", engineDir |-> ""])
       IN call' = [call EXCEPT !.cache = c2, !.calls = awaitAll(c2, calls)]
  /\ UnchangedButCall

\* The load behind the cache variable v settles: it is fulfilled, or it is
\* rejected (a file of the directory is missing or unreadable).
LoadSettles ==
  /\ call.fn = "library"
  /\ \E v \in DOMAIN call.cache, outcome \in {"fulfilled", "rejected"} :
       /\ call.cache[v].promise = "pending"
       /\ LET c1 == [call.cache EXCEPT ![v].promise = outcome]
          IN call' = [call EXCEPT !.cache = c1, !.calls = awaitAll(c1, call.calls)]
  /\ UnchangedButCall

NextLibrary ==
  \/ LibraryCall
  \/ LoadSettles

SpecLibrary == LibraryInit /\ [][NextLibrary]_vars

\* ------------------------------------------------------------ properties
\* Run r is in flight: started and its token stream not yet ended.
InFlight(rs, r) == rs[r].gen.st # "done"

\* The step is one key event.
KeyStep == keys' = keys + 1

\* The typed text str is absorbed by the pending suggestion.
Absorbs(inp, sug, str) ==
  /\ sug # <<>>
  /\ \/ StartsWith(sug, str)
     \/ EndsWithSpace(inp) /\ StartsWith(sug, <<SP>>) /\ StartsWith(Slice(sug, 1), str)

\* The step is a key event that changes the input and is not absorbed: a
\* non-matching typed text, Backspace on non-empty input, Ctrl+U, Alt+Enter.
NonAbsorbedChange ==
  /\ KeyStep
  /\ \/ lastKey'.kind \in {"CtrlU", "AltEnter"}
     \/ lastKey'.kind = "Backspace" /\ input # <<>>
     \/ lastKey'.kind = "Typed" /\ ~Absorbs(input, suggestion, lastKey'.str)

\* C1 (as stated): once a run has been cancelled and a newer run has started,
\* no token of the cancelled run is appended to the pending suggestion.
C1_NoStaleToken ==
  [][\A r \in DOMAIN runs :
       (runs[r].aborted /\ Len(runs) > r)
         => /\ runs'[r].delivered = runs[r].delivered
            /\ (runs'[r].gen.yielded # runs[r].gen.yielded => suggestion' = suggestion)]_vars

\* C2 (as stated): at most one run is in flight (started, stream not ended).
C2_OneInFlight ==
  Cardinality({r \in DOMAIN runs : InFlight(runs, r)}) <= 1

\* C2 (amended): at most one run whose abort signal is not set is in flight,
\* it is the latest run and the one autocompleteAbort holds; a new run
\* starts only when the signal of every earlier run still in flight is set.
C2_OneLiveRun ==
  /\ \A r \in DOMAIN runs :
       (InFlight(runs, r) /\ ~runs[r].aborted) => (r = Len(runs) /\ autocompleteAbort = r)
  /\ Cardinality({r \in DOMAIN runs : InFlight(runs, r) /\ ~runs[r].aborted}) <= 1

\* Two runs are in flight, the earlier one cancelled, the later one live.
C2_Witness ==
  /\ Len(runs) >= 2
  /\ InFlight(runs, 1) /\ runs[1].aborted
  /\ InFlight(runs, 2) /\ ~runs[2].aborted

\* C3: a key event that changes the input and is not absorbed leaves the
\* pending suggestion empty, the abort signal of every in-flight run set,
\* and every debounce timer that was pending before it cleared.
C3_CancelOnChange ==
  [][NonAbsorbedChange
       => /\ suggestion' = <<>>
          /\ \A r \in DOMAIN runs' : InFlight(runs', r) => runs'[r].aborted
          /\ timers \cap timers' = {}
          /\ \A t \in timers : \A u \in timers' : t.id # u.id]_vars

\* The second key was typed while run 1 was in flight with a token in the
\* suggestion: the run is cancelled, the suggestion cleared.
C3_Witness ==
  /\ keys = 2
  /\ lastKey.kind = "Typed"
  /\ Len(runs) = 1
  /\ InFlight(runs, 1) /\ runs[1].aborted /\ runs[1].delivered # <<>>
  /\ suggestion = <<>>
  /\ input = <<"a", "a">>

\* C4 (as stated): every input-changing key event that is not absorbed
\* leaves a debounce timer pending.
C4_AlwaysSchedules ==
  [][(NonAbsorbedChange /\ input' # input) => timers' # {}]_vars

\* C4 (amended): such a key event leaves exactly one debounce timer pending,
\* a new one carrying the trimmed updated input, when the updated input has
\* a non-whitespace character, and none otherwise; a run starts only from a
\* pending timer, with that timer's text, the trimmed input, as its prompt.
C4_SchedulesIfNonBlank ==
  /\ [][NonAbsorbedChange
          => IF Trim(input') # <<>>
             THEN /\ timers' = {[id |-> autocompleteTimer', text |-> Trim(input')]}
                  /\ autocompleteTimer' = nTimers'
                  /\ nTimers' = nTimers + 1
             ELSE timers' = {}]_vars
  /\ [][Len(runs') # Len(runs)
          => /\ Len(runs') = Len(runs) + 1
             /\ \E t \in timers :
                  /\ timers' = timers \ {t}
                  /\ runs'[Len(runs')].prompt = t.text
                  /\ t.text = Trim(input)
             /\ input' = input]_vars

\* The third key, Backspace, left the input "a"; the timer of that key fired
\* and started the run for "a".
C4_Witness ==
  /\ keys = 3
  /\ lastKey.kind = "Backspace"
  /\ input = <<"a">>
  /\ timers = {}
  /\ autocompleteTimer = 3
  /\ Len(runs) >= 1
  /\ runs[Len(runs)].prompt = <<"a">>
  /\ InFlight(runs, Len(runs))

\* C5: a typed text absorbed by the pending suggestion is removed from the
\* front of the suggestion (after the one collapsed space in the second
\* case) and appended to the input; runs, abort signals and the debounce
\* timer are unchanged and no request is scheduled.
C5_AbsorbTyping ==
  [][(KeyStep /\ lastKey'.kind = "Typed" /\ Absorbs(input, suggestion, lastKey'.str))
       => LET str == lastKey'.str IN
          /\ input' = input \o str
          /\ suggestion' = IF StartsWith(suggestion, str)
                           THEN Slice(suggestion, Len(str))
                           ELSE Slice(suggestion, 1 + Len(str))
          /\ UNCHANGED <<runs, autocompleteAbort, isGenerating, autocompleteTimer,
                         timers, nTimers>>]_vars

\* Suggestion "lo world" after input "hi": typing "lo" left " world", with
\* the run that produced the suggestion still in flight and not cancelled.
C5_Witness ==
  /\ keys = 1
  /\ lastKey = [kind |-> "Typed", str |-> <<"l", "o">>]
  /\ input = <<"h", "i", "l", "o">>
  /\ suggestion = <<SP, "w", "o", "r", "l", "d">>
  /\ InFlight(runs, 1) /\ ~runs[1].aborted
  /\ timers = {}

WorldPeaceNow ==
  <<SP, "w", "o", "r", "l", "d", SP, "p", "e", "a", "c", "e", SP, "n", "o", "w">>

\* C6 (as stated): for every input, Tab on the suggestion " world peace now"
\* appends exactly "world " and leaves "peace now".
C6_AppendsWorld ==
  [][(KeyStep /\ lastKey'.kind = "Tab" /\ suggestion = WorldPeaceNow)
       => /\ input' = input \o <<"w", "o", "r", "l", "d", SP>>
          /\ suggestion' = SubSeq(WorldPeaceNow, 8, 16)]_vars

\* C6 (amended): Tab on a non-empty suggestion appends the first word,
\* preceded by the whitespace before it (newline runs as one space, one
\* leading space dropped when the input ends with a space) and followed by
\* one space when a remainder is left; the remainder starts at the next
\* word.  For " world peace now" that is " world " ("world " after an input
\* ending with a space) and "peace now".
C6_AcceptWord ==
  [][(KeyStep /\ lastKey'.kind = "Tab" /\ suggestion # <<>>)
       => LET nLead == LeadWs(suggestion)
              afterLead == Slice(suggestion, nLead)
              nWord == LeadNonWs(afterLead)
              word == SubSeq(afterLead, 1, nWord)
              afterWord == Slice(afterLead, nWord)
              rest == Slice(afterWord, LeadWs(afterWord))
              lead == FlattenNewlines(SubSeq(suggestion, 1, nLead))
              kept == IF EndsWithSpace(input) /\ StartsWith(lead, <<SP>>)
                      THEN Tail(lead) ELSE lead
          IN /\ suggestion' = rest
             /\ rest = <<>> \/ ~IsWs(rest[1])
             /\ input' = IF word = <<>> THEN input
                         ELSE input \o kept \o word
                                \o (IF rest # <<>> THEN <<SP>> ELSE <<>>)
             /\ suggestion = WorldPeaceNow
                  => /\ suggestion' = SubSeq(WorldPeaceNow, 8, 16)
                     /\ input' = input \o (IF EndsWithSpace(input) THEN <<>> ELSE <<SP>>)
                                       \o <<"w", "o", "r", "l", "d", SP>>]_vars

\* Tab on " world peace now" after input "hi".
C6_Witness ==
  /\ keys = 1
  /\ lastKey.kind = "Tab"
  /\ input = <<"h", "i", SP, "w", "o", "r", "l", "d", SP>>
  /\ suggestion = <<"p", "e", "a", "c", "e", SP, "n", "o", "w">>

\* C7: a Tab accept that leaves the suggestion empty sets the abort signal
\* of every in-flight run and leaves one new debounce timer pending whose
\* text is the trimmed input including the accepted text; a Tab accept that
\* leaves a remainder schedules and cancels nothing.
C7_TabRequests ==
  [][(KeyStep /\ lastKey'.kind = "Tab" /\ suggestion # <<>>)
       => IF suggestion' = <<>>
          THEN /\ \A r \in DOMAIN runs' : InFlight(runs', r) => runs'[r].aborted
               /\ autocompleteAbort' = Null
               /\ isGenerating' = FALSE
               /\ nTimers' = nTimers + 1
               /\ autocompleteTimer' = nTimers'
               /\ timers' = {[id |-> autocompleteTimer', text |-> Trim(input')]}
               /\ Trim(input') # <<>>
               /\ StartsWith(input', input)
          ELSE UNCHANGED <<runs, autocompleteAbort, isGenerating, autocompleteTimer,
                           timers, nTimers>>]_vars

\* "a" was typed, its run delivered " a", and Tab (the second key) accepted
\* it while the run was in flight: the run is cancelled and a timer for
\* "a a" is pending.
C7_Witness ==
  /\ keys = 2
  /\ lastKey.kind = "Tab"
  /\ input = <<"a", SP, "a">>
  /\ suggestion = <<>>
  /\ timers = {[id |-> 2, text |-> <<"a", SP, "a">>]}
  /\ InFlight(runs, 1) /\ runs[1].aborted

\* C8: while Escape is the last key handled the pending suggestion is empty,
\* no debounce timer is pending and the abort signal of every in-flight run
\* is set; Escape leaves the input unchanged.
C8_EscapeCancels ==
  /\ [](lastKey.kind = "Escape"
          => /\ suggestion = <<>>
             /\ timers = {}
             /\ \A r \in DOMAIN runs : InFlight(runs, r) => runs[r].aborted)
  /\ [][(KeyStep /\ lastKey'.kind = "Escape") => input' = input]_vars

\* Escape (the second key) cancelled run 1, which afterwards yielded a token
\* that was not delivered.
C8_Witness ==
  /\ keys = 2
  /\ lastKey.kind = "Escape"
  /\ Len(runs) = 1
  /\ runs[1].aborted
  /\ Len(runs[1].gen.yielded) > Len(runs[1].delivered)
  /\ suggestion = <<>>

\* C9: when the scorer throws in run r, no exception leaves the callback,
\* the suggestion is unchanged by the step and run r adds no token later,
\* and the step ends the run as a stream end without a token does:
\* isGenerating FALSE, status from whether the suggestion is non-empty.
C9_FaultEndsRun ==
  /\ []~uncaught
  /\ [][\A r \in DOMAIN runs :
          (/\ runs[r].gen.st = "scoring"
           /\ runs'[r].gen.st = "done"
           /\ runs'[r].gen.yielded = runs[r].gen.yielded)
            => /\ suggestion' = suggestion
               /\ runs'[r].delivered = runs[r].delivered
               /\ isGenerating' = FALSE
               /\ status' = IF suggestion # <<>> THEN "Tab to accept" ELSE ""]_vars
  /\ [][\A r \in DOMAIN runs :
          runs[r].gen.fault
            => (runs'[r].delivered = runs[r].delivered /\ runs'[r].gen = runs[r].gen)]_vars

\* The scorer threw after run 1 had delivered a token.
C9_Witness ==
  /\ Len(runs) = 1
  /\ runs[1].gen.fault
  /\ runs[1].gen.st = "done"
  /\ runs[1].delivered # <<>>
  /\ suggestion = <<SP, "a">>
  /\ ~isGenerating
  /\ status = "Tab to accept"

\* C10: once the signal is set the engine makes no further scorer
\* invocation, and yields nothing more unless a step was already awaiting
\* the scorer when the signal was set; with the signal set before the first
\* step the run yields no token and never invokes the scorer.
C10_NoStepAfterAbort ==
  /\ [][stream.aborted => stream'.gen.scored = stream.gen.scored]_vars
  /\ [][(stream.aborted /\ stream.gen.st # "scoring")
          => (stream'.gen.yielded = stream.gen.yielded /\ stream'.out = stream.out)]_vars
  /\ [](stream.startedAborted
          => (stream.gen.yielded = <<>> /\ stream.gen.scored = 0 /\ stream.out = <<>>))

\* The signal was set after the first token: the engine stopped at the top
\* of the next step, before maxNewTokens.
C10_Witness ==
  /\ stream.open /\ stream.aborted /\ ~stream.startedAborted
  /\ stream.gen.st = "done"
  /\ Len(stream.gen.yielded) = 1
  /\ stream.gen.scored = 1
  /\ stream.gen.step < stream.maxNewTokens

\* The step is the stream's consumer requesting the next element.
RequestStep == stream.gen.st \in {"start", "yield"} /\ stream'.gen # stream.gen

\* The step is the stream's scorer invocation settling.
SettleStep == stream.gen.st = "scoring" /\ stream'.gen.st # "scoring"

\* The last scorer invocation of the stream gave a top probability below a
\* positive minConfidence.
LowConfidence(s) ==
  s.last.kind = "logits" /\ s.minConfidence > 0 /\ s.last.top < s.minConfidence

\* C11: a run yields at most maxNewTokens tokens, and the request after the
\* maxNewTokens-th token ends the stream without a scorer invocation; with
\* maxNewTokens = 0 nothing is yielded and the scorer is never invoked.
C11_AtMostMaxNewTokens ==
  /\ [](/\ Len(stream.gen.yielded) <= stream.maxNewTokens
        /\ Len(stream.out) <= stream.maxNewTokens
        /\ (stream.maxNewTokens = 0
              => (stream.gen.yielded = <<>> /\ stream.gen.scored = 0)))
  /\ [][(RequestStep /\ Len(stream.gen.yielded) = stream.maxNewTokens)
          => (stream'.gen.st = "done" /\ stream'.gen.scored = stream.gen.scored)]_vars

\* A run with maxNewTokens = MaxNewTokens yielded that many tokens and ended.
C11_Witness ==
  /\ stream.open /\ ~stream.aborted
  /\ stream.maxNewTokens = MaxNewTokens
  /\ stream.gen.st = "done"
  /\ Len(stream.gen.yielded) = MaxNewTokens
  /\ stream.gen.scored = MaxNewTokens

\* C12: no yielded token and no id pushed to the working sequence is the
\* eos id; a step that samples eos ends the run without yielding or
\* pushing, and an ended run yields nothing more.
C12_NeverYieldsEos ==
  /\ [](/\ \A i \in DOMAIN stream.gen.yielded : stream.gen.yielded[i] # EosId
        /\ \A i \in DOMAIN stream.gen.ids : stream.gen.ids[i] # EosId)
  /\ [][(SettleStep /\ stream'.last.kind = "logits" /\ stream'.last.id = EosId)
          => /\ stream'.gen.st = "done"
             /\ stream'.gen.yielded = stream.gen.yielded
             /\ stream'.gen.ids = stream.gen.ids
             /\ stream'.out = stream.out]_vars
  /\ [][stream.gen.st = "done"
          => (stream'.gen = stream.gen /\ stream'.out = stream.out)]_vars

\* After one yielded token the sampling returned eos, with a top
\* probability that passes minConfidence.
C12_Witness ==
  /\ stream.open /\ ~stream.aborted
  /\ stream.gen.st = "done"
  /\ stream.last.kind = "logits" /\ stream.last.id = EosId
  /\ ~LowConfidence(stream)
  /\ Len(stream.gen.yielded) = 1
  /\ stream.gen.scored = 2

\* C13: with minConfidence > 0, a step whose top probability is below
\* minConfidence ends the run without yielding (at the first step: with no
\* token at all); with minConfidence = 0 a step that samples a non-eos id
\* yields it whatever the top probability.
C13_LowConfidenceStops ==
  /\ [][(SettleStep /\ LowConfidence(stream'))
          => /\ stream'.gen.st = "done"
             /\ stream'.gen.yielded = stream.gen.yielded
             /\ stream'.gen.ids = stream.gen.ids
             /\ stream'.out = stream.out
             /\ (stream.gen.step = 0 => stream'.gen.yielded = <<>>)]_vars
  /\ [][(/\ SettleStep
         /\ stream'.last.kind = "logits"
         /\ stream.minConfidence = 0
         /\ stream'.last.id # EosId)
          => /\ stream'.gen.st = "yield"
             /\ stream'.gen.yielded = Append(stream.gen.yielded, stream'.last.id)]_vars

\* The first step of a run with minConfidence 0.6 gave top probability 0.5
\* and a non-eos sample: the run ended with no token.
C13_Witness ==
  /\ stream.open /\ ~stream.aborted
  /\ stream.minConfidence > 0
  /\ LowConfidence(stream)
  /\ stream.last.id # EosId
  /\ stream.gen.st = "done"
  /\ stream.gen.scored = 1
  /\ stream.gen.yielded = <<>>
  /\ stream.out = <<>>

\* C14 (as stated): the scorer is invoked only at a request, every request
\* makes exactly one invocation, and an ended run has made as many
\* invocations as it yielded tokens, plus one when it ended on an eos sample
\* or a low-confidence stop, never more than maxNewTokens.
C14_OneInvocationPerRequest ==
  /\ [][stream'.gen.scored # stream.gen.scored => RequestStep]_vars
  /\ [][RequestStep => stream'.gen.scored = stream.gen.scored + 1]_vars
  /\ [](stream.gen.st = "done"
          => stream.gen.scored = Len(stream.gen.yielded)
               + (IF LowConfidence(stream)
                     \/ (stream.last.kind = "logits" /\ stream.last.id = EosId)
                  THEN 1 ELSE 0))
  /\ [](stream.gen.scored <= stream.maxNewTokens)

\* C14 (amended): the scorer is invoked only at a request; a request makes
\* one invocation unless maxNewTokens tokens were yielded or the signal is
\* set, and then none and the stream ends; tokens are only appended; an
\* ended run has made as many invocations as it yielded tokens, plus one
\* when it ended on an eos sample, a low-confidence stop or a scorer fault,
\* never more than maxNewTokens.
C14_LazyStream ==
  /\ [][stream'.gen.scored # stream.gen.scored => RequestStep]_vars
  /\ [][RequestStep
          => IF Len(stream.gen.yielded) < stream.maxNewTokens /\ ~stream.aborted
             THEN /\ stream'.gen.scored = stream.gen.scored + 1
                  /\ stream'.gen.st = "scoring"
             ELSE /\ stream'.gen.scored = stream.gen.scored
                  /\ stream'.gen.st = "done"]_vars
  /\ [][\/ stream'.gen.yielded = stream.gen.yielded
        \/ /\ SettleStep
           /\ stream'.gen.yielded = Append(stream.gen.yielded, stream'.last.id)]_vars
  /\ [](stream.gen.st = "done"
          => stream.gen.scored = Len(stream.gen.yielded)
               + (IF \/ stream.last.kind = "throw"
                     \/ LowConfidence(stream)
                     \/ (stream.last.kind = "logits" /\ stream.last.id = EosId)
                  THEN 1 ELSE 0))
  /\ [](stream.gen.st = "scoring" => stream.gen.scored = Len(stream.gen.yielded) + 1)
  /\ [](stream.gen.st = "yield" => stream.gen.scored = Len(stream.gen.yielded))
  /\ [](stream.gen.scored <= stream.maxNewTokens)

\* The scorer threw at the second step: two invocations, one token.
C14_Witness ==
  /\ stream.open /\ ~stream.aborted
  /\ stream.gen.st = "done"
  /\ stream.gen.fault
  /\ stream.last.kind = "throw"
  /\ Len(stream.gen.yielded) = 1
  /\ stream.gen.scored = 2

\* The first n elements of s.
Take(s, n) == IF n >= Len(s) THEN s ELSE SubSeq(s, 1, n)

\* C15: encode(text, L) returns inputIds and attentionMask of length L, and
\* attentionMask[i] = 1 exactly where inputIds[i] is not the pad id.
C15_PaddingInvariant ==
  (call.fn = "tokenizer" /\ call.stage = "encoded")
    => /\ Len(call.enc.inputIds) = call.maxLength
       /\ Len(call.enc.attentionMask) = call.maxLength
       /\ \A i \in 1..call.maxLength :
            /\ call.enc.attentionMask[i] \in {0, 1}
            /\ call.enc.attentionMask[i] = 1 <=> call.enc.inputIds[i] # PadId

\* encode("a", 4): begin, "a", end, one pad.
C15_Witness ==
  /\ call.fn = "tokenizer" /\ call.stage = "encoded"
  /\ call.text = <<"a">> /\ call.maxLength = 4
  /\ call.enc.inputIds = <<BosId, ByteBase + 97, EosId, PadId>>
  /\ call.enc.attentionMask = <<1, 1, 1, 0>>

\* C16: encodeForGeneration(text) is the begin id followed by the ids of the
\* matches of the text, with no end id and no pad id; encode(text, L).inputIds
\* is the first L elements of that sequence followed by the end id and pad ids.
C16_SameTokenization ==
  /\ (call.fn = "tokenizer" /\ call.stage = "generated")
       => /\ call.ids = <<BosId>> \o PushMatches(call.full, <<>>, Matches(call.text))
          /\ \A i \in DOMAIN call.ids : call.ids[i] \notin {EosId, PadId}
          /\ \A i \in DOMAIN call.ids : i > 1 => call.ids[i] # BosId
  /\ (call.fn = "tokenizer" /\ call.stage = "encoded")
       => call.enc.inputIds
            = Take(encodeForGeneration(call.full, call.text) \o <<EosId>>
                     \o [i \in 1..call.maxLength |-> PadId],
                   call.maxLength)

\* encode("a a", 2) is cut after the first id of the text.
C16_Witness ==
  /\ call.fn = "tokenizer" /\ call.stage = "encoded"
  /\ call.text = <<"a", SP, "a">> /\ call.maxLength = 2
  /\ call.enc.inputIds = <<BosId, ByteBase + 97>>
  /\ encodeForGeneration(call.full, call.text) = <<BosId, ByteBase + 97, TokA>>

RECURSIVE Concat(_)
Concat(ts) == IF ts = <<>> THEN <<>> ELSE Head(ts) \o Concat(Tail(ts))

\* The characters of t that are not whitespace.
NonWs(t) == SelectSeq(t, LAMBDA c : ~IsWs(c))

\* Every whitespace character of t is one space directly before a character
\* that is not whitespace, or belongs to the whitespace t ends with.
PlainlySpaced(t) ==
  \A i \in DOMAIN t :
    IsWs(t[i])
      => \/ t[i] = SP /\ i < Len(t) /\ ~IsWs(t[i + 1])
         \/ \A j \in i..Len(t) : IsWs(t[j])

RECURSIVE KeptIds(_, _)
KeptIds(full, tokenIds) ==
  IF tokenIds = <<>> THEN <<>>
  ELSE IF Head(tokenIds) \in {PadId, BosId, EosId, UnkId} \/ ~InReverseVocab(full, Head(tokenIds))
       THEN KeptIds(full, Tail(tokenIds))
  ELSE <<Head(tokenIds)>> \o KeptIds(full, Tail(tokenIds))

\* The texts of the vocabulary entries of ids, concatenated, as bytes.
RECURSIVE EntryBytes(_, _)
EntryBytes(full, ids) ==
  IF ids = <<>> THEN <<>>
  ELSE (IF Head(ids) \in NamedIds
        THEN SymbolsToBytes(textToBytes(VocabText(Head(ids))))
        ELSE <<Head(ids) - ByteBase>>)
       \o EntryBytes(full, Tail(ids))

FracLess(a, b) == a.num * b.den < b.num * a.den

\* The magnitude of the fraction a.
FracAbs(a) == [num |-> IF a.num < 0 THEN -a.num ELSE a.num, den |-> a.den]

\* C19: topKFilter(logits, k), k >= 0, returns min(k, length) entries, each
\* value the logit at its index, the indices distinct, the values in
\* descending order and none below a value that is not returned.
C19_TopK ==
  (call.fn = "sampling" /\ call.stage = "topK")
    => LET n == Len(call.logits)
           top == call.top
           m == IF call.k < n THEN call.k ELSE n
           returned == {top.indices[j] : j \in 1..m}
       IN /\ Len(top.indices) = m /\ Len(top.logits) = m
          /\ \A j \in 1..m :
               top.indices[j] \in 0..(n - 1) /\ top.logits[j] = call.logits[top.indices[j] + 1]
          /\ Cardinality(returned) = m
          /\ \A i, j \in 1..m : i < j => top.logits[i] >= top.logits[j]
          /\ \A i \in 0..(n - 1) :
               i \notin returned => \A j \in 1..m : top.logits[j] >= call.logits[i + 1]

\* The two highest of 1, 2, 1 are the 2 at index 1 and the first 1.
C19_Witness ==
  /\ call.fn = "sampling" /\ call.stage = "topK"
  /\ call.logits = <<1, 2, 1>> /\ call.k = 2
  /\ call.top = [indices |-> <<1, 0>>, logits |-> <<2, 1>>]

\* The call penalizes a token of the vector.
Penalizes == call.fn = "sampling" /\ call.stage = "penalized" /\ call.id < Len(call.logits)

\* C20 (as stated): with penalty > 1 the adjusted score of a token seen n
\* times is strictly smaller in magnitude than with n - 1 occurrences.
C20_MagnitudeDecreases ==
  (Penalizes /\ call.halves > 2)
    => FracLess(FracAbs(call.penalized[call.id + 1]), FracAbs(call.before[call.id + 1]))

\* C20 (amended): with penalty > 1 the adjusted score of a token seen n
\* times is strictly lower than with n - 1 occurrences when its logit is not
\* zero (smaller in magnitude for a positive logit, larger for a negative
\* one) and stays zero when it is; the other scores are the logits.  With
\* penalty <= 1 every score is the logit.
C20_ScoreDecreases ==
  (call.fn = "sampling" /\ call.stage = "penalized")
    => /\ Len(call.penalized) = Len(call.logits)
       /\ call.halves <= 2
            => \A i \in DOMAIN call.logits :
                 call.penalized[i] = [num |-> call.logits[i], den |-> 1]
       /\ (Penalizes /\ call.halves > 2)
            => LET now == call.penalized[call.id + 1]
                   was == call.before[call.id + 1]
                   logit == call.logits[call.id + 1]
               IN /\ logit # 0 => FracLess(now, was)
                  /\ logit > 0 => FracLess(FracAbs(now), FracAbs(was)) /\ now.num > 0
                  /\ logit < 0 => FracLess(FracAbs(was), FracAbs(now)) /\ now.num < 0
                  /\ logit = 0 => now.num = 0 /\ was.num = 0
       /\ (call.halves > 2 /\ call.id >= Len(call.logits))
            => call.penalized = call.before

\* With penalty 1.5 the logit -2 of a token seen twice becomes -4.5, after
\* -3 for one occurrence.
C20_Witness ==
  /\ Penalizes /\ call.halves = 3 /\ call.n = 2 /\ call.id = 0
  /\ call.logits = <<-2, 1>>
  /\ call.penalized[1] = [num |-> -18, den |-> 4]
  /\ call.before[1] = [num |-> -6, den |-> 2]

\* The decoded texts of the tokens ids, concatenated.
RECURSIVE TokenTexts(_)
TokenTexts(ids) == IF ids = <<>> THEN <<>> ELSE TokenText(Head(ids)) \o TokenTexts(Tail(ids))

\* C25: a debounce timer starts its run with an empty suggestion, and while
\* no key event intervenes the suggestion stays the concatenation, in the
\* order yielded, of the texts of the tokens that run has delivered.
C25_SuggestionIsRunOutput ==
  [][/\ (keys' = keys /\ Len(runs') > Len(runs)) => suggestion = <<>>
     /\ (/\ keys' = keys
         /\ autocompleteAbort # Null /\ autocompleteAbort' = autocompleteAbort
         /\ ~runs[autocompleteAbort].aborted
         /\ suggestion = TokenTexts(runs[autocompleteAbort].delivered))
          => /\ suggestion' = TokenTexts(runs'[autocompleteAbort].delivered)
             /\ runs'[autocompleteAbort].delivered
                  = SubSeq(runs'[autocompleteAbort].gen.yielded, 1,
                           Len(runs'[autocompleteAbort].delivered))]_vars

\* C28: isGenerating is true exactly when a run that has not been cancelled
\* is in progress.
C28_IsGeneratingExact ==
  isGenerating <=> \E r \in DOMAIN runs : InFlight(runs, r) /\ ~runs[r].aborted

\* C29: status "Tab to accept" implies a non-empty pending suggestion.
C29_TabToAcceptHasSuggestion ==
  status = "Tab to accept" => suggestion # <<>>

\* C30: classification results, when present, were computed from the text
\* that is the current input.
C30_ResultsOfCurrentInput ==
  results # <<>> => results[1] = input

\* C21: sampleFromLogits returns an index of the vector it is given, and the
\* last index when no cumulative sum reaches the threshold.
C21_ValidIndex ==
  (call.fn = "sampling" /\ call.stage = "sampled")
    => /\ call.index \in 0..(Len(call.logits) - 1)
       /\ call.r > Sum(ExpScores(call.logits, 1)) => call.index = Len(call.logits) - 1

\* C24: the token a step samples is the vocabulary id of one of the topK
\* highest-scoring entries of the penalised, temperature-scaled logits.
C24_TokenAmongTopK ==
  (call.fn = "sampling" /\ call.stage = "stepped" /\ ~call.step.stop)
    => LET st == call.step
           n == Len(call.logits)
           m == IF call.k < n THEN call.k ELSE n
           below(a, b) == FracLess(st.scaled[a + 1], st.scaled[b + 1])
       IN /\ st.penalized = applyRepetitionPenalty(call.logits, TokenCounts(call.ids), call.halves)
          /\ st.scaled = temperatureScale(st.penalized, call.temperature)
          /\ st.nextToken \in 0..(n - 1)
          /\ Cardinality({i \in 0..(n - 1) : below(st.nextToken, i)}) < m

\* C26: the k-th scorer invocation of a run receives the caller's input
\* followed by the k - 1 tokens yielded so far; the working sequence holds
\* one more id per yielded token; the caller's array never changes.
C26_ScorerInput ==
  /\ [](/\ Len(stream.gen.fed) = stream.gen.scored
        /\ \A k \in DOMAIN stream.gen.fed :
             stream.gen.fed[k] = stream.gen.inputIds \o SubSeq(stream.gen.yielded, 1, k - 1)
        /\ stream.gen.ids = stream.gen.yielded)
  /\ [][stream'.gen.inputIds = stream.gen.inputIds]_vars

\* The second invocation of a run on " a" received the input and the first
\* token; the caller's array is as it was.
C26_Witness ==
  /\ stream.open /\ stream.gen.st = "scoring"
  /\ stream.gen.inputIds = <<BosId, TokA>>
  /\ stream.gen.fed = <<<<BosId, TokA>>, <<BosId, TokA, TokLoWorld>>>>

\* The word with every non-overlapping occurrence of first followed by
\* second, taken from the left, replaced by the concatenated symbol: position
\* j starts an occurrence when the pair is there and position j - 1 starts
\* none.
GreedyMerge(word, first, second) ==
  LET n == Len(word)
      starts[j \in 0..n] ==
        /\ j >= 1 /\ j < n /\ word[j] = first /\ word[j + 1] = second
        /\ ~starts[j - 1]
      kept == {j \in 1..n : ~starts[j - 1]}
      at(k) == CHOOSE j \in kept : Cardinality({x \in kept : x <= j}) = k
  IN [k \in 1..Cardinality(kept) |->
        IF starts[at(k)] THEN first \o second ELSE word[at(k)]]

\* The adjacent pairs of word that are registered merges.
RegisteredPairs(word) ==
  {i \in 1..(Len(word) - 1) : \E r \in DOMAIN Merges : Merges[r] = <<word[i], word[i + 1]>>}

\* The words of the passes of bpe on word, word first: each pass merges the
\* registered pair of lowest rank, and the passes end with one symbol or
\* without a registered pair.
RECURSIVE Passes(_)
Passes(word) ==
  IF Len(word) = 1 \/ RegisteredPairs(word) = {} THEN <<word>>
  ELSE LET r == CHOOSE q \in DOMAIN Merges :
                  /\ \E i \in RegisteredPairs(word) : Merges[q] = <<word[i], word[i + 1]>>
                  /\ \A p \in DOMAIN Merges :
                       (\E i \in RegisteredPairs(word) : Merges[p] = <<word[i], word[i + 1]>>)
                         => q <= p
       IN <<word>> \o Passes(GreedyMerge(word, Merges[r][1], Merges[r][2]))

\* The symbols of the matches of the call's text that bpe takes apart: those
\* of more than one symbol that are no vocabulary entry.
BpeWords ==
  LET ms == Matches(call.text)
  IN {[i \in 1..Len(textToBytes(ms[k])) |-> <<textToBytes(ms[k])[i]>>] :
        k \in {k \in DOMAIN ms : /\ Len(textToBytes(ms[k])) > 1
                                  /\ VocabId(call.full, textToBytes(ms[k])) = Undefined}}

\* C23: a pass of bpe replaces every non-overlapping occurrence, from the
\* left, of the pair it is given and leaves the other symbols in place; bpe
\* gives the word of the last of the passes that each merge the present
\* registered pair of lowest rank, so it ends with one symbol or with no
\* registered adjacent pair.
C23_BpePasses ==
  (call.fn = "tokenizer" /\ call.stage = "generated")
    => \A word \in BpeWords :
         LET symbols == {word[i] : i \in DOMAIN word}
             out == bpe(call.full, Concat(word))
         IN /\ \A first \in symbols, second \in symbols :
                 MergePair(word, first, second) = GreedyMerge(word, first, second)
            /\ out = Passes(word)[Len(Passes(word))]
            /\ Concat(out) = Concat(word)
            /\ Len(out) = 1 \/ RegisteredPairs(out) = {}

\* " as": of the pairs " "+"a" (rank 1) and "a"+"s" (rank 0) the second is
\* merged, and no registered pair is left.
C23_Witness ==
  /\ call.fn = "tokenizer" /\ call.stage = "generated" /\ call.full
  /\ call.text = <<SP, "a", "s">>
  /\ call.ids = <<BosId, ByteBase + 32, TokAs>>

\* C22: a library call given modelsDir = D runs with the tokenizer and the
\* model loaded from D.
C22_UsesGivenDir ==
  call.fn = "library"
    => \A i \in DOMAIN call.calls :
         call.calls[i].st = "running"
           => /\ call.calls[i].tokenizerDir = call.calls[i].dir
              /\ call.calls[i].engineDir = call.calls[i].dir

\* C27: no cache variable ever has a second load started, and a call that
\* needs a tokenizer or engine whose load failed is rejected.
C27_NoRetry ==
  call.fn = "library"
    => /\ \A v \in DOMAIN call.cache : call.cache[v].loads <= 1
       /\ \A i \in DOMAIN call.calls :
            (\/ call.cache[CachesOf(call.calls[i].op).tokenizer].promise = "rejected"
             \/ call.cache[CachesOf(call.calls[i].op).engine].promise = "rejected")
              => call.calls[i].st = "rejected"

\* The tokenizer load of a first classifyCode failed; a later
\* classifyDifficulty is rejected as well, without a second tokenizer load.
C27_Witness ==
  /\ call.fn = "library" /\ Len(call.calls) = 2
  /\ call.calls[1].op = "classifyCode" /\ call.calls[2].op = "classifyDifficulty"
  /\ call.calls[1].st = "rejected" /\ call.calls[2].st = "rejected"
  /\ call.cache["classifierTokenizerPromise"] = [promise |-> "rejected", dir |-> "MODELS_DIR", loads |-> 1]
  /\ call.cache["difficultyPromise"].promise = "fulfilled"

\* C31: at most one debounce timer is pending; a key event that is not
\* absorbed leaves no earlier timer pending, and the one it arms carries the
\* input after that event; a run starts from the one pending timer, so the
\* events of a burst start at most one run.
C31_OneTimer ==
  /\ [](Cardinality(timers) <= 1)
  /\ [][NonAbsorbedChange
          => /\ timers' \cap timers = {}
             /\ \A t \in timers' : t.id = nTimers' /\ t.text = Trim(input')]_vars
  /\ [][Len(runs') # Len(runs)
          => /\ Len(runs') = Len(runs) + 1
             /\ timers' = {}
             /\ keys' = keys]_vars

\* Three characters typed in a burst: the first two timers were cancelled,
\* the third fired, and one run was started, for the input after the third.
C31_Witness ==
  /\ keys = 3 /\ nTimers = 3
  /\ input = <<"a", "a", "a">>
  /\ timers = {}
  /\ Len(runs) = 1 /\ runs[1].prompt = <<"a", "a", "a">>

\* C32: a pending timer carries the trimmed current input, which is not
\* empty, and the run a firing timer starts has that text as its prompt.
C32_PromptIsTrimmedInput ==
  /\ [](\A t \in timers : t.text = Trim(input) /\ t.text # <<>>)
  /\ [][Len(runs') # Len(runs)
          => /\ runs'[Len(runs')].prompt = Trim(input')
             /\ runs'[Len(runs')].prompt # <<>>]_vars

\* "a" and a space were typed: the run was started for "a".
C32_Witness ==
  /\ input = <<"a", SP>>
  /\ Len(runs) = 1 /\ runs[1].prompt = <<"a">>
  /\ runs[1].gen.st = "scoring"

\* The symbols of every match of the call's text, one token each.
MatchWords ==
  LET ms == Matches(call.text)
  IN {[i \in 1..Len(textToBytes(ms[k])) |-> <<textToBytes(ms[k])[i]>>] : k \in DOMAIN ms}

\* C33: a pass for an adjacent pair of the word, whatever the merge table
\* ranks, gives a shorter word, and the loop of bpe on n symbols ends after
\* at most n - 1 passes, each shorter than the one before.
C33_PassesShrink ==
  (call.fn = "tokenizer" /\ call.stage = "generated")
    => \A word \in MatchWords :
         /\ \A i \in 1..(Len(word) - 1) :
              Len(MergePair(word, word[i], word[i + 1])) < Len(word)
         /\ Len(word) >= 2
              => LET words == BpeLoopWords(word)
                 IN /\ Len(words) - 1 <= Len(word) - 1
                    /\ \A p \in 1..(Len(words) - 1) : Len(words[p + 1]) < Len(words[p])
                    /\ LET last == words[Len(words)]
                       IN /\ last = BpeLoop(word)
                          /\ \/ Len(last) = 1
                             \/ \A i \in 1..(Len(last) - 1) :
                                  MergeRank(last[i], last[i + 1]) = Undefined

\* "aas": one pass, for "a"+"s", takes the three symbols to two.
C33_Witness ==
  /\ call.fn = "tokenizer" /\ call.stage = "generated" /\ ~call.full
  /\ call.text = <<"a", "a", "s">>
  /\ call.ids = <<BosId, ByteBase + 97, TokAs>>
  /\ Len(BpeLoopWords(<<<<97>>, <<97>>, <<115>>>>)) = 2

\* C34: the symbols bpe returns for a match, concatenated in order, are the
\* byte-level symbols of the match, and so are those of every pass.
C34_BpeKeepsSymbols ==
  (call.fn = "tokenizer" /\ call.stage = "generated")
    => \A word \in MatchWords :
         /\ Concat(bpe(call.full, Concat(word))) = Concat(word)
         /\ \A i \in 1..(Len(word) - 1) :
              Concat(MergePair(word, word[i], word[i + 1])) = Concat(word)
         /\ Len(word) >= 2
              => \A p \in DOMAIN BpeLoopWords(word) : Concat(BpeLoopWords(word)[p]) = Concat(word)

\* U+00E9 and "as" in one match: the two bytes of U+00E9 have no entry in
\* the smaller vocabulary, and bpe returns them and "as", three symbols for
\* four.
C34_Witness ==
  /\ call.fn = "tokenizer" /\ call.stage = "generated" /\ ~call.full
  /\ call.text = <<Eacute, "a", "s">>
  /\ call.ids = <<BosId, UnkId, UnkId, TokAs>>

\* C35: Tab on a non-empty suggestion and a typed text the suggestion
\* absorbs leave the non-whitespace characters of the input followed by the
\* suggestion as they were, in number and in order.
C35_KeepsSuggestedText ==
  [][(/\ KeyStep
      /\ \/ lastKey'.kind = "Tab" /\ suggestion # <<>>
         \/ lastKey'.kind = "Typed" /\ Absorbs(input, suggestion, lastKey'.str))
       => NonWs(input' \o suggestion') = NonWs(input \o suggestion)]_vars

\* Suggestion " world" after input "hi ": "w" was typed and absorbed, the
\* space in front of it dropped from the suggestion.
C35_Witness ==
  /\ keys = 1
  /\ lastKey = [kind |-> "Typed", str |-> <<"w">>]
  /\ input = <<"h", "i", SP, "w">>
  /\ suggestion = <<"o", "r", "l", "d">>
  /\ NonWs(input \o suggestion) = <<"h", "i", "w", "o", "r", "l", "d">>

\* C36: whatever the order of calls and settlements, no cache variable of
\* the library has more than one load started for it, and a call that finds
\* a variable set (its load pending or settled) leaves it as it is and
\* awaits that promise: it does not run before a pending load has settled.
C36_LoadedOnce ==
  /\ [](call.fn = "library"
          => \A v \in DOMAIN call.cache :
               /\ call.cache[v].loads <= 1
               /\ call.cache[v].loads = 0 <=> call.cache[v].promise = "null")
  /\ [][(call.fn = "library" /\ Len(call'.calls) > Len(call.calls))
          => LET c == call'.calls[Len(call'.calls)] IN
             \A f \in {"tokenizer", "engine"} :
               LET v == CachesOf(c.op)[f] IN
                 /\ call.cache[v].promise # "null" => call'.cache[v] = call.cache[v]
                 /\ call.cache[v].promise = "pending" => c.st # "running"
                 /\ call'.cache[v].promise # "null"]_vars

\* autocomplete and autocompleteStream called one after the other before any
\* load settled: both wait, one load each of the tokenizer and the engine.
C36_Witness ==
  /\ call.fn = "library" /\ Len(call.calls) = 2
  /\ call.calls[1].op = "autocomplete" /\ call.calls[2].op = "autocompleteStream"
  /\ call.calls[1].st = "waiting" /\ call.calls[2].st = "waiting"
  /\ call.cache["autocompleteTokenizerPromise"] = [promise |-> "pending", dir |-> "MODELS_DIR", loads |-> 1]
  /\ call.cache["autocompletePromise"] = [promise |-> "pending", dir |-> "MODELS_DIR", loads |-> 1]

\* decode([t]) of each token in turn, concatenated in order: what
\* autocompleteStream yields and what the terminal client appends.
DecodeEach(full, tokenIds) ==
  Concat([i \in DOMAIN tokenIds |-> decode(full, <<tokenIds[i]>>)])

\* C37 (as stated): for the ids given to decode, the decoded single tokens
\* concatenated in order are the decoded whole sequence.  The two byte
\* tokens of U+00E9 give U+00E9 decoded together and U+FFFD twice decoded
\* one by one.
C37_IncrementalIsWhole ==
  (call.fn = "tokenizer" /\ call.stage = "decoded")
    => DecodeEach(call.full, call.ids) = decode(call.full, call.ids)


=============================================================================
